---- MODULE Spec2Model ----
(***************************************************************************)
(* Perfect-negotiation engine of the meeting client                        *)
(* (src/src/pages/meeting/hooks/useWebRTC.ts).                             *)
(*                                                                         *)
(* Every participant runs one instance of the hook useWebRTC.  ep[p] holds *)
(* the refs of participant p's instance (peerConnections, makingOffer,     *)
(* pendingIceCandidates, ...), the RTCPeerConnection objects it has        *)
(* created (conn) and its suspended async functions (tasks).  inbox[p] is  *)
(* the ordered stream of "signal" events the signaling server relays to p. *)
(*                                                                         *)
(* An async function is one task; an action runs it from one await to the  *)
(* next.  A task waits in ep[p].tasks in the order in which the awaited    *)
(* calls were made; calls on the same RTCPeerConnection settle in that     *)
(* order (the connection's operations chain), timers settle at any time.   *)
(***************************************************************************)
EXTENDS Integers, Sequences, FiniteSets, TLC

\* Socket ids of the participants; 1 < 2 stands for "aaa" < "bbb".
Peers == {1, 2, 3}
Tracks == {"audio", "video"}

\* Bounds of the model.
MaxJoins == 2      \* newUserConnected announcements an instance receives (SpecGlare)
MaxJoinsIce == 1   \* the same, where ICE candidates are exchanged (SpecIce)
MaxJoinsRecovery == 1  \* the same, where connections fail (SpecRecovery)
MaxCand == 2       \* ICE candidates an instance's connections generate
MaxConns == 3      \* RTCPeerConnection objects an instance creates
MaxTasks == 3      \* async functions of one instance suspended at a time
MaxFails == 3      \* failures the transport reports to an instance
MaxJoinsMedia == 1     \* newUserConnected announcements (SpecMedia)
MaxJoinsExit == 1      \* the same, where an instance leaves (SpecExit)
MaxFailsExit == 1      \* failures the transport reports (SpecExit)
MaxToggles == 2    \* calls of toggleMute/toggleCamera on an instance
MaxJoinsReentry == 2   \* newUserConnected announcements (SpecReentry)
MaxExits == 2      \* cleanups of the effect of an instance (SpecReentry)
MaxJoinsDeparture == 1 \* newUserConnected announcements (SpecDeparture)
MaxCandDeparture == 1  \* ICE candidates of an instance (SpecDeparture)
MaxJoinsLeave == 1     \* newUserConnected announcements (SpecLeave)
MaxCandLeave == 1      \* ICE candidates of an instance (SpecLeave)
MaxFailsLeave == 1     \* failures the transport reports (SpecLeave)
MaxJoinsCross == 2     \* newUserConnected announcements (SpecCross)
MaxFailsCross == 1     \* failures the transport reports (SpecCross)
MaxJoinsMutual == 1    \* newUserConnected announcements (SpecMutual)
MaxFailsMutual == 1    \* connection failures reported to each side (SpecMutual)
MaxJoinsGone == 2      \* newUserConnected announcements to instance 2 (SpecGone)
MaxFailsGone == 2      \* connection failures reported (SpecGone)
MaxJoinsSocket == 1    \* newUserConnected announcements to each side (SpecSocket)
MaxExitsSocket == 2    \* mounts and cleanups of the effect (SpecSocket)
MaxJoinsIceFailure == 1  \* newUserConnected announcements (SpecIceFailure)
MaxFailsIceFailure == 1  \* connection failures reported (SpecIceFailure)

NoPc == 0
NoId == 0

VARIABLES ep, inbox, glare

vars == <<ep, inbox, glare>>

----------------------------------------------------------------------------
(* RTCPeerConnection: the transport, as the hook uses it.                  *)

NoSenders == [t \in Tracks |-> 0]

\* new RTCPeerConnection(...) for remote user userId.
NewPc(userId) ==
  [userId |-> userId, signalingState |-> "stable", connectionState |-> "new",
   pendingLocal |-> "none", currentLocal |-> "none",
   pendingRemote |-> "none", currentRemote |-> "none",
   senders |-> NoSenders, applied |-> <<>>, timers |-> 0, recreations |-> 0,
   iceConnectionState |-> "new", iceRestart |-> FALSE]

\* pc.remoteDescription: the pending description, else the current one.
RemoteDescription(r) ==
  IF r.pendingRemote # "none" THEN r.pendingRemote ELSE r.currentRemote

LocalDescription(r) ==
  IF r.pendingLocal # "none" THEN r.pendingLocal ELSE r.currentLocal

\* pc.close()
ClosePc(r) == [r EXCEPT !.signalingState = "closed", !.connectionState = "closed"]

\* pc.createOffer() rejects on a closed connection.
CreateOfferOk(r) == r.signalingState # "closed"

\* pc.setLocalDescription(offer)
SetLocalOfferOk(r) == r.signalingState \in {"stable", "have-local-offer"}
SetLocalOffer(r) ==
  [r EXCEPT !.pendingLocal = "offer", !.signalingState = "have-local-offer"]

\* pc.setLocalDescription({type: 'rollback'}): InvalidStateError in stable.
RollbackOk(r) == r.signalingState \in {"have-local-offer", "have-remote-offer"}
Rollback(r) ==
  [r EXCEPT !.pendingLocal = "none", !.pendingRemote = "none",
            !.signalingState = "stable"]

\* pc.setRemoteDescription(offer); in have-local-offer it rolls back first.
SetRemoteOfferOk(r) == r.signalingState # "closed"
SetRemoteOffer(r) ==
  [r EXCEPT !.pendingLocal = "none", !.pendingRemote = "offer",
            !.signalingState = "have-remote-offer"]

\* pc.createAnswer() needs a remote offer.
CreateAnswerOk(r) == r.signalingState = "have-remote-offer"

\* pc.setLocalDescription(answer)
SetLocalAnswerOk(r) == r.signalingState = "have-remote-offer"
SetLocalAnswer(r) ==
  [r EXCEPT !.currentRemote = r.pendingRemote, !.currentLocal = "answer",
            !.pendingLocal = "none", !.pendingRemote = "none",
            !.signalingState = "stable"]

\* pc.setRemoteDescription(answer)
SetRemoteAnswerOk(r) == r.signalingState = "have-local-offer"
SetRemoteAnswer(r) ==
  [r EXCEPT !.currentLocal = r.pendingLocal, !.currentRemote = "answer",
            !.pendingLocal = "none", !.pendingRemote = "none",
            !.signalingState = "stable"]

\* pc.addIceCandidate(c) rejects without a remote description.
AddIceCandidateOk(r) ==
  r.signalingState # "closed" /\ RemoteDescription(r) # "none"
AddIceCandidate(r, c) == [r EXCEPT !.applied = Append(r.applied, c)]

----------------------------------------------------------------------------
(* Helpers on one instance e = ep[p].                                      *)

RemoveAt(s, i) == SubSeq(s, 1, i - 1) \o SubSeq(s, i + 1, Len(s))

\* The awaited call of a task is a call on an RTCPeerConnection (not a timer).
IsPcOp(at) == at \notin {"delay200", "delay50", "timer", "gumAV", "gumAudio"}

\* The connection the awaited call of task t is made on.
OpPc(t) == IF t.at = "iceLoop" THEN t.ppc ELSE t.pc

\* Task i of e can settle: no earlier call on the same connection is pending.
CanResume(e, i) ==
  IsPcOp(e.tasks[i].at) =>
    \A j \in 1..(i - 1) :
      ~(IsPcOp(e.tasks[j].at) /\ OpPc(e.tasks[j]) = OpPc(e.tasks[i]))

Task(kind, userId, pc, at, type, cand) ==
  [kind |-> kind, userId |-> userId, pc |-> pc, at |-> at, type |-> type,
   cand |-> cand, ppc |-> NoPc, idx |-> 0, alias |-> FALSE, pend |-> <<>>,
   stale |-> FALSE]

\* pendingIceCandidates.current[userId] gets a new array: a loop of
\* processPendingIceCandidates that iterates the old array keeps the old one.
Detach(ts, userId, old) ==
  [k \in DOMAIN ts |->
     IF ts[k].at = "iceLoop" /\ ts[k].alias /\ ts[k].userId = userId
       THEN [ts[k] EXCEPT !.alias = FALSE, !.pend = old]
       ELSE ts[k]]

\* signalingSocket.current?.emit("signal", {to, data})
Emit(e, p, to, type, cand) ==
  IF e.signalingSocket = "null" THEN <<>>
  ELSE <<[to |-> to, from |-> p, type |-> type, cand |-> cand]>>

\* The server relays the emitted signals to the addressee's connected socket.
Relay(box, out) ==
  IF out = <<>> THEN box
  ELSE [box EXCEPT ![out[1].to] =
          IF ep[out[1].to].signalingSocket = "connected"
            THEN Append(@, [from |-> out[1].from, type |-> out[1].type,
                            cand |-> out[1].cand])
            ELSE @]

----------------------------------------------------------------------------
(* The hook's functions, on the refs of one instance e.                    *)

\* addLocalTracksToConnection: pc.addTrack rejects on a closed connection.
AddTracksThrows(e, c) ==
  /\ e.localStream # <<>>
  /\ e.conn[c].signalingState = "closed"
  /\ \E t \in e.localStream[1] : e.conn[c].senders[t] = 0

\* An attachment that does not look at the senders the connection has.
AddLocalTracksAgain(e, c) ==
  IF e.localStream = <<>> THEN e
  ELSE [e EXCEPT !.conn[c].senders =
          [t \in Tracks |-> IF t \in e.localStream[1] THEN @[t] + 1 ELSE @[t]]]

AddLocalTracksToConnection(e, c) ==
  IF e.localStream = <<>> THEN e
  ELSE [e EXCEPT !.conn[c].senders =
          [t \in Tracks |->
             IF t \in e.localStream[1] /\ @[t] = 0 THEN 1 ELSE @[t]]]

\* createPeerConnection(userId, forceNew): the reuse test.
ReusesExisting(e, userId, forceNew) ==
  /\ e.peerConnections[userId] # NoPc
  /\ ~forceNew
  /\ e.conn[e.peerConnections[userId]].connectionState \notin {"failed", "closed"}

\* createPeerConnection(userId, forceNew): the existing connection is closed.
ClosesExisting(e, userId, forceNew) ==
  /\ e.peerConnections[userId] # NoPc
  /\ ~forceNew

CreatePeerConnection(e, userId, forceNew) ==
  IF ReusesExisting(e, userId, forceNew) THEN e
  ELSE
    LET old == e.peerConnections[userId]
        e1 == IF ClosesExisting(e, userId, forceNew)
                THEN [e EXCEPT !.conn[old] = ClosePc(@)]
                ELSE e
        fresh == NewPc(userId)
        pc == IF e.localStream # <<>> /\ e.isStreamReady
                THEN [fresh EXCEPT !.senders =
                        [t \in Tracks |->
                           IF t \in e.localStream[1] THEN 1 ELSE 0]]
                ELSE fresh
    IN [e1 EXCEPT
          !.pendingIceCandidates[userId] = <<>>,
          !.tasks = Detach(@, userId, e.pendingIceCandidates[userId]),
          !.conn = Append(@, pc),
          !.peerConnections[userId] = Len(e.conn) + 1]

\* peerConnections.current[userId] || createPeerConnection(userId)
LookupOrCreate(e, userId) ==
  IF e.peerConnections[userId] # NoPc THEN e
  ELSE CreatePeerConnection(e, userId, FALSE)

\* A createOfferTo without the guard on the signaling state.
MayOfferInAnyState(r) == TRUE

\* createOfferTo: the guard on the signaling state.
MayOffer(r) == r.signalingState \in {"stable", "closed"}

\* A guard of createOfferTo that also wants the stream to hold tracks.
StreamUsableWithTracks(e) ==
  e.isStreamReady /\ e.localStream # <<>> /\ e.localStream[1] # {}

\* createOfferTo: the stream is ready (an empty MediaStream is a stream).
StreamUsable(e) == e.isStreamReady /\ e.localStream # <<>>

\* createOfferTo(userId), up to the first await: delay(200) when the stream
\* is not ready, else delay(50) after the session lookup, the guard on the
\* signaling state and the attachment of the tracks.
OfferStart(e, userId) ==
  LET e1 == LookupOrCreate(e, userId)
      c == e1.peerConnections[userId]
  IN IF ~StreamUsable(e)
       THEN [e EXCEPT !.tasks = Append(@, Task("createOfferTo", userId, NoPc,
                                               "delay200", "none", 0))]
     ELSE IF ~MayOffer(e1.conn[c])
       THEN [e1 EXCEPT !.seen = @ \cup {"skippedOffer"}]
     ELSE IF AddTracksThrows(e1, c)
       THEN [e1 EXCEPT !.makingOffer[userId] = FALSE]
       ELSE [AddLocalTracksToConnection(e1, c) EXCEPT
               !.makingOffer[userId] = TRUE,
               !.tasks = Append(@, Task("createOfferTo", userId, c, "delay50",
                                        "none", 0))]

\* A politeness rule that does not compare the ids.
IsPoliteWithoutOrder(localSocketId, from) == TRUE

\* handleSignal: the politeness rule.
IsPolite(localSocketId, from) ==
  IF localSocketId # NoId THEN localSocketId < from ELSE TRUE

OfferCollision(e, from, r) ==
  e.makingOffer[from] \/ r.signalingState # "stable"

\* An ignore rule that looks at the signaling state only, not at makingOffer.
IgnoreOfferBySignalingState(e, from, r) ==
  ~IsPolite(e.localSocketId, from) /\ r.signalingState # "stable"

IgnoreOffer(e, from, r) ==
  ~IsPolite(e.localSocketId, from) /\ OfferCollision(e, from, r)

\* An answer branch without the test of the signaling state.
AnswerExpectedAlways(r) == TRUE

\* handleSignal: an answer is set only while one is awaited.
AnswerExpected(r) == r.signalingState = "have-local-offer"

\* handleSignal: a candidate waits while there is no remote description.
MustQueueCandidate(r) == RemoteDescription(r) = "none"

\* handleSignal(from, data), up to its first await.
HandleSignal(e, m) ==
  IF ~e.isStreamReady /\ m.type = "offer"
    THEN [e EXCEPT !.pendingSignals = Append(@, m)]
  ELSE
    LET e1 == LookupOrCreate(e, m.from)
        c == e1.peerConnections[m.from]
        r == e1.conn[c]
    IN CASE m.type = "offer" ->
              LET e2 == [e1 EXCEPT !.politeEval[m.from] =
                           IF IsPolite(e1.localSocketId, m.from)
                             THEN "polite" ELSE "impolite"]
              IN IF IgnoreOffer(e2, m.from, r)
                   THEN [e2 EXCEPT !.seen = @ \cup {"ignoredOffer"}]
                 ELSE IF OfferCollision(e2, m.from, r)
                           /\ IsPolite(e2.localSocketId, m.from)
                   THEN [e2 EXCEPT !.tasks =
                           Append(@, Task("handleSignal", m.from, c, "rollback",
                                          "offer", 0))]
                 ELSE IF AddTracksThrows(e2, c) THEN e2
                 ELSE [AddLocalTracksToConnection(e2, c) EXCEPT !.tasks =
                         Append(@, Task("handleSignal", m.from, c,
                                        "setRemoteOffer", "offer", 0))]
         [] m.type = "answer" ->
              IF AnswerExpected(r)
                THEN [e1 EXCEPT !.tasks =
                        Append(@, Task("handleSignal", m.from, c,
                                       "setRemoteAnswer", "answer", 0))]
                ELSE [e1 EXCEPT !.seen = @ \cup {"droppedAnswer"}]
         [] OTHER ->
              IF MustQueueCandidate(r)
                THEN [e1 EXCEPT
                        !.pendingIceCandidates[m.from] = Append(@, m.cand),
                        !.everQueued[m.from] = @ \cup {m.cand}]
                ELSE [e1 EXCEPT !.tasks =
                        Append(@, Task("handleSignal", m.from, c,
                                       "addIceCandidate", "candidate", m.cand))]

\* processPendingIceCandidates(userId), entered by task t: the task as it
\* waits for the first queued candidate, or t unchanged when nothing is queued.
ProcessPendingStart(e, t) ==
  IF e.peerConnections[t.userId] = NoPc
       \/ e.pendingIceCandidates[t.userId] = <<>>
    THEN t
    ELSE [t EXCEPT !.at = "iceLoop", !.ppc = e.peerConnections[t.userId],
                   !.idx = 1, !.alias = TRUE, !.pend = <<>>]

\* What handleSignal does after processPendingIceCandidates returned:
\* the offer branch calls createAnswer, the answer branch is done.
AfterPending(ts, t) ==
  IF t.type = "offer"
    THEN Append(ts, [t EXCEPT !.at = "createAnswer", !.ppc = NoPc, !.idx = 0,
                              !.alias = FALSE, !.pend = <<>>])
    ELSE ts

\* pc.addIceCandidate(c) on connection r of e resolves: the transport rejects
\* a candidate it cannot parse, and any candidate while r is closed or has no
\* remote description.
Accepted(e, r, c) == AddIceCandidateOk(r) /\ c \notin e.malformed

\* A loop over the queue that ends at the first rejected candidate.
LoopStopsOnRejection(ok, idx, len) == ok /\ idx < len

\* processPendingIceCandidates: the for-of loop has a next candidate; the
\* try/catch is inside the loop, so a rejection does not end it.
LoopGoesOn(ok, idx, len) == idx < len

\* The array the loop of task t iterates.
LoopArray(e, t) ==
  IF t.alias THEN e.pendingIceCandidates[t.userId] ELSE t.pend

----------------------------------------------------------------------------
(* useMediaControls (src/src/webrtc/useMediaControls.ts), on the stream    *)
(* the page passes to it: localStreamState of useWebRTC.                   *)

\* The useState initial values.
NoControls ==
  [isMuted |-> FALSE, isCameraOff |-> FALSE, hasMic |-> FALSE, hasCamera |-> FALSE]

\* The effect on [localStream]: the controls follow the stream's tracks.
SyncedControls(localStream, enabled, c) ==
  IF localStream = <<>>
    THEN [c EXCEPT !.hasMic = FALSE, !.hasCamera = FALSE, !.isCameraOff = TRUE]
    ELSE [isMuted |-> IF "audio" \in localStream[1]
                        THEN ~enabled["audio"] ELSE c.isMuted,
          isCameraOff |-> IF "video" \in localStream[1]
                            THEN ~enabled["video"] ELSE TRUE,
          hasMic |-> "audio" \in localStream[1],
          hasCamera |-> "video" \in localStream[1]]

\* A mute that takes the audio track off every connection.
ToggleMuteByRemovingTrack(e) ==
  [e EXCEPT !.conn = [c \in DOMAIN e.conn |->
                        [e.conn[c] EXCEPT !.senders["audio"] = 0]],
            !.controls.isMuted = ~e.controls.isMuted]

\* The values of isMuted and isCameraOff that a render of the hook with the
\* state c gives to the closures toggleMute and toggleCamera.
RenderOf(c) == [isMuted |-> c.isMuted, isCameraOff |-> c.isCameraOff]

\* toggleMute(): the tracks are flipped; the new isMuted is the negation of
\* the value the closure got from the render that created it.
ToggleMuteOf(e) ==
  IF e.localStreamState = <<>> THEN e
  ELSE IF "audio" \notin e.localStreamState[1]
    THEN [e EXCEPT !.controls.hasMic = FALSE]
    ELSE [e EXCEPT !.enabled["audio"] = ~@,
                   !.controls.isMuted = ~e.rendered.isMuted]

\* toggleCamera()
ToggleCameraOf(e) ==
  IF e.localStreamState = <<>> THEN e
  ELSE IF "video" \notin e.localStreamState[1]
    THEN [e EXCEPT !.controls.hasCamera = FALSE]
    ELSE [e EXCEPT !.enabled["video"] = ~@,
                   !.controls.isCameraOff = ~e.rendered.isCameraOff]

----------------------------------------------------------------------------
(* Initial states.                                                         *)

\* In makingOffer and pendingIceCandidates an absent key is FALSE, or an
\* empty queue: the hook reads both the same way.

\* The refs of an instance whose effect has acquired the stream `stream`
\* and has created its socket, which is not connected yet.  limit bounds the
\* events the instance will see.
Running(stream, limit) ==
  [isStreamReady |-> TRUE, localStream |-> <<stream>>,
   signalingSocket |-> "open", localSocketId |-> NoId,
   peerConnections |-> [q \in Peers |-> NoPc],
   makingOffer |-> [q \in Peers |-> FALSE],
   pendingIceCandidates |-> [q \in Peers |-> <<>>],
   pendingSignals |-> <<>>, remoteUsers |-> {}, remoteStreams |-> {},
   conn |-> <<>>, tasks |-> <<>>,
   cancelled |-> FALSE, live |-> stream,
   localStreamState |-> <<stream>>, enabled |-> [t \in Tracks |-> TRUE],
   controls |-> SyncedControls(<<stream>>, [t \in Tracks |-> TRUE], NoControls),
   controlsStale |-> FALSE,
   rendered |-> RenderOf(SyncedControls(<<stream>>, [t \in Tracks |-> TRUE],
                                        NoControls)),
   politeEval |-> [q \in Peers |-> "none"],
   everQueued |-> [q \in Peers |-> {}], seen |-> {},
   joins |-> 0, cands |-> 0, fails |-> 0, toggles |-> 0, exits |-> 0,
   departs |-> 0, malformed |-> {}, departed |-> {}, listed |-> FALSE,
   limit |-> limit]

\* A user who is not in the meeting: the hook is not mounted.
Absent ==
  [Running({}, [joins |-> 0, cands |-> 0, fails |-> 0, toggles |-> 0,
                exits |-> 0, departs |-> 0]) EXCEPT
     !.isStreamReady = FALSE, !.localStream = <<>>, !.signalingSocket = "null",
     !.localStreamState = <<>>, !.cancelled = TRUE,
     !.controls = SyncedControls(<<>>, [t \in Tracks |-> TRUE], NoControls),
     !.rendered = RenderOf(SyncedControls(<<>>, [t \in Tracks |-> TRUE],
                                          NoControls))]

\* A meeting of the instances a (socket id 1) and b (socket id 2).
Meeting(a, b) ==
  [p \in Peers |-> IF p = 1 THEN a ELSE IF p = 2 THEN b ELSE Absent]

Limit(joins, cands, fails) == [joins |-> joins, cands |-> cands, fails |-> fails]

\* The bounds of an instance that toggles its tracks and leaves the meeting.
SessionLimit(joins, fails, toggles, exits) ==
  [joins |-> joins, cands |-> 0, fails |-> fails, toggles |-> toggles,
   exits |-> exits]

\* The bounds of an instance in a meeting that the other instance may leave.
DepartureLimit(joins, cands, exits, departs) ==
  [joins |-> joins, cands |-> cands, fails |-> 0, toggles |-> 0,
   exits |-> exits, departs |-> departs]

\* The bounds of an instance whose connections fail and whose peer may leave.
EventLimit(joins, cands, fails, exits, departs) ==
  [joins |-> joins, cands |-> cands, fails |-> fails, toggles |-> 0,
   exits |-> exits, departs |-> departs]

\* The refs and objects of an instance, without the history the model keeps
\* beside them (politeEval, everQueued, seen and the counters of the bounds).
Program(e) ==
  [isStreamReady |-> e.isStreamReady, localStream |-> e.localStream,
   signalingSocket |-> e.signalingSocket, localSocketId |-> e.localSocketId,
   peerConnections |-> e.peerConnections, makingOffer |-> e.makingOffer,
   pendingIceCandidates |-> e.pendingIceCandidates,
   pendingSignals |-> e.pendingSignals, remoteUsers |-> e.remoteUsers,
   remoteStreams |-> e.remoteStreams,
   conn |-> e.conn, tasks |-> e.tasks,
   cancelled |-> e.cancelled, live |-> e.live,
   localStreamState |-> e.localStreamState, enabled |-> e.enabled,
   controls |-> e.controls, rendered |-> e.rendered]

Init ==
  /\ ep = Meeting(Running(Tracks, Limit(MaxJoins, 0, 0)),
                  Running(Tracks, Limit(MaxJoins, 0, 0)))
  /\ inbox = [p \in Peers |-> <<>>]
  /\ glare = FALSE

----------------------------------------------------------------------------
(* Events of the signaling socket.                                         *)

\* socket.on("connect")
SocketConnect(p) ==
  /\ ep[p].signalingSocket = "open"
  /\ ep' = [ep EXCEPT ![p].signalingSocket = "connected",
                      ![p].localSocketId = p]
  /\ UNCHANGED <<inbox, glare>>

\* The for-of loop of the usersInRoom handler over the users, by their ids:
\* a session is created for every user the registry has none for.
RECURSIVE PrepareSessions(_, _)
PrepareSessions(e, users) ==
  IF users = {} THEN e
  ELSE LET u == CHOOSE x \in users : \A y \in users : x <= y
           e1 == IF e.peerConnections[u] = NoPc
                   THEN CreatePeerConnection(e, u, FALSE) ELSE e
       IN PrepareSessions(e1, users \ {u})

\* A usersInRoom handler that also offers to every user of the list.
RECURSIVE UsersInRoomOffering(_, _)
UsersInRoomOffering(e, users) ==
  IF users = {} THEN e
  ELSE LET u == CHOOSE x \in users : \A y \in users : x <= y
       IN UsersInRoomOffering(
            OfferStart([e EXCEPT !.remoteUsers = @ \cup {u}], u), users \ {u})

\* The usersInRoom handler on the refs and states of e: the users are shown
\* and their sessions prepared; no offer is created here.
UsersInRoomOf(e, users) ==
  PrepareSessions([e EXCEPT !.remoteUsers = @ \cup users], users)

\* socket.on("usersInRoom"): the server sends the newcomer, once after it
\* connected, the users that are in the room already.
UsersInRoom(p) ==
  LET users == {q \in Peers \ {p} : ep[q].signalingSocket = "connected"}
  IN /\ ep[p].signalingSocket = "connected"
     /\ ~ep[p].listed
     /\ Len(ep[p].conn) + Cardinality(users) <= MaxConns
     /\ Len(ep[p].tasks) + Cardinality(users) <= MaxTasks
     /\ ep' = [ep EXCEPT ![p] = [UsersInRoomOf(ep[p], users) EXCEPT
                                   !.listed = TRUE]]
     /\ UNCHANGED <<inbox, glare>>

\* An offer of q to p is under way: q is creating it or p has not handled it.
OfferUnderWay(q, p) ==
  \/ \E i \in DOMAIN ep[q].tasks :
       ep[q].tasks[i].kind = "createOfferTo" /\ ep[q].tasks[i].userId = p
  \/ \E k \in DOMAIN inbox[p] :
       inbox[p][k].from = q /\ inbox[p][k].type = "offer"

\* socket.on("newUserConnected"): createOfferTo(id) runs to its first await.
NewUserConnected(p, id) ==
  /\ id # p
  /\ ep[p].signalingSocket = "connected"
  /\ ep[id].signalingSocket = "connected"
  /\ ep[p].joins < ep[p].limit.joins
  /\ Len(ep[p].tasks) < MaxTasks
  /\ Len(ep[p].conn) < MaxConns
  /\ LET e0 == [ep[p] EXCEPT !.remoteUsers = @ \cup {id}, !.joins = @ + 1]
         e1 == OfferStart(e0, id)
     IN /\ ep' = [ep EXCEPT ![p] = e1]
        /\ glare' = (glare \/ (e1.makingOffer[id] /\ OfferUnderWay(id, p)))
  /\ UNCHANGED inbox

\* socket.on("signal"): handleSignal(from, data) runs to its first await.
Signal(p) ==
  /\ ep[p].signalingSocket = "connected"
  /\ inbox[p] # <<>>
  /\ Len(ep[p].tasks) < MaxTasks
  /\ Len(ep[p].conn) < MaxConns
  /\ ep' = [ep EXCEPT ![p] = HandleSignal(ep[p], Head(inbox[p]))]
  /\ inbox' = [inbox EXCEPT ![p] = Tail(@)]
  /\ UNCHANGED glare

\* pc.onicecandidate of connection c of p: candidates are gathered once a
\* local description is set; a connection that is closed, or failed (its
\* gathering is over), generates none.
IceCandidate(p, c) ==
  /\ ep[p].cands < ep[p].limit.cands
  /\ ep[p].conn[c].signalingState # "closed"
  /\ ep[p].conn[c].connectionState # "failed"
  /\ LocalDescription(ep[p].conn[c]) # "none"
  /\ ep' = [ep EXCEPT ![p].cands = @ + 1]
  /\ inbox' = Relay(inbox, Emit(ep[p], p, ep[p].conn[c].userId, "candidate",
                                ep[p].cands + 1))
  /\ UNCHANGED glare

\* A departure that closes every registered connection and empties the
\* registry.
DepartedClearingRegistry(e, q) ==
  [e EXCEPT !.conn = [c \in DOMAIN e.conn |->
                        IF \E u \in Peers : e.peerConnections[u] = c
                          THEN ClosePc(e.conn[c]) ELSE e.conn[c]],
            !.peerConnections = [u \in Peers |-> NoPc],
            !.remoteStreams = @ \ {q}, !.remoteUsers = @ \ {q},
            !.departed = @ \cup {q}]

\* The userDisconnected handler, on the refs and states of e.
Departed(e, q) ==
  LET pc == e.peerConnections[q]
      e1 == IF pc # NoPc THEN [e EXCEPT !.conn[pc] = ClosePc(@)] ELSE e
  IN [e1 EXCEPT !.peerConnections[q] = NoPc,
                !.remoteStreams = @ \ {q}, !.remoteUsers = @ \ {q},
                !.departed = @ \cup {q}]

\* socket.on("userDisconnected") for user q, who has left the meeting: the
\* connection of q is closed and its registry entry deleted.  The server
\* sends the event when the socket of q disconnects; signals of q that it
\* relayed before may still wait in the inbox.
UserDisconnected(p, q) ==
  /\ q # p
  /\ ep[p].signalingSocket = "connected"
  /\ ep[q].cancelled /\ ep[q].exits > 0
  /\ ep[p].departs < ep[p].limit.departs
  /\ ep' = [ep EXCEPT ![p] = [Departed(ep[p], q) EXCEPT !.departs = @ + 1]]
  /\ UNCHANGED <<inbox, glare>>

----------------------------------------------------------------------------
(* createOfferTo, from await to await.                                     *)

\* Task i of p waits at position `at` and its awaited call can settle.
At(p, i, at) ==
  /\ i \in DOMAIN ep[p].tasks
  /\ ep[p].tasks[i].at = at
  /\ CanResume(ep[p], i)

\* The instance after task i has left the list of waiting tasks.
Without(p, i) == [ep[p] EXCEPT !.tasks = RemoveAt(@, i)]

\* await delay(50) is over: pc.createOffer() is called.
OfferDelayDone(p, i) ==
  /\ At(p, i, "delay50")
  /\ ep' = [ep EXCEPT ![p].tasks =
              Append(RemoveAt(@, i), [ep[p].tasks[i] EXCEPT !.at = "createOffer"])]
  /\ UNCHANGED <<inbox, glare>>

\* pc.createOffer() settled: pc.setLocalDescription(offer) is called, or the
\* rejection is caught and makingOffer is cleared.
OfferCreated(p, i) ==
  /\ At(p, i, "createOffer")
  /\ LET t == ep[p].tasks[i]
         e == Without(p, i)
     IN ep' = [ep EXCEPT ![p] =
                 IF CreateOfferOk(e.conn[t.pc])
                   THEN [e EXCEPT !.tasks = Append(@, [t EXCEPT !.at = "setLocalOffer"])]
                   ELSE [e EXCEPT !.makingOffer[t.userId] = FALSE]]
  /\ UNCHANGED <<inbox, glare>>

\* pc.setLocalDescription(offer) settled: the offer is emitted; finally
\* makingOffer is cleared.
OfferSetLocal(p, i) ==
  /\ At(p, i, "setLocalOffer")
  /\ LET t == ep[p].tasks[i]
         e == [Without(p, i) EXCEPT !.makingOffer[t.userId] = FALSE]
     IN IF SetLocalOfferOk(e.conn[t.pc])
          THEN /\ ep' = [ep EXCEPT ![p] =
                           [e EXCEPT !.conn[t.pc] = SetLocalOffer(@)]]
               /\ inbox' = Relay(inbox, Emit(e, p, t.userId, "offer", 0))
          ELSE /\ ep' = [ep EXCEPT ![p] = e]
               /\ UNCHANGED inbox
  /\ UNCHANGED glare

----------------------------------------------------------------------------
(* handleSignal, from await to await.                                      *)

\* pc.setLocalDescription({type: 'rollback'}) settled.
RollbackDone(p, i) ==
  /\ At(p, i, "rollback")
  /\ LET t == ep[p].tasks[i]
         e == Without(p, i)
         e1 == [e EXCEPT !.conn[t.pc] = Rollback(@)]
     IN ep' = [ep EXCEPT ![p] =
                 IF ~RollbackOk(e.conn[t.pc]) THEN e
                 ELSE IF AddTracksThrows(e1, t.pc) THEN e1
                 ELSE [AddLocalTracksToConnection(e1, t.pc) EXCEPT !.tasks =
                         Append(@, [t EXCEPT !.at = "setRemoteOffer"])]]
  /\ UNCHANGED <<inbox, glare>>

\* pc.ontrack of connection c of e: the remote description that was just
\* set carries the tracks of the peer, and the stream is stored for it.
OnTrack(e, c) == [e EXCEPT !.remoteStreams = @ \cup {e.conn[c].userId}]

\* What follows `await pc.setRemoteDescription(sdp)` in both branches:
\* processPendingIceCandidates(from), then the rest of the branch.
EnterPending(e, t) ==
  LET t1 == ProcessPendingStart(e, t)
  IN IF t1.at = "iceLoop"
       THEN [e EXCEPT !.tasks = Append(@, t1)]
       ELSE [e EXCEPT !.tasks = AfterPending(@, t)]

\* pc.setRemoteDescription(offer) settled.
RemoteOfferSet(p, i) ==
  /\ At(p, i, "setRemoteOffer")
  /\ LET t == ep[p].tasks[i]
         e == Without(p, i)
     IN ep' = [ep EXCEPT ![p] =
                 IF SetRemoteOfferOk(e.conn[t.pc])
                   THEN EnterPending(
                          OnTrack([e EXCEPT !.conn[t.pc] = SetRemoteOffer(@)], t.pc), t)
                   ELSE e]
  /\ UNCHANGED <<inbox, glare>>

\* pc.setRemoteDescription(answer) settled.
RemoteAnswerSet(p, i) ==
  /\ At(p, i, "setRemoteAnswer")
  /\ LET t == ep[p].tasks[i]
         e == Without(p, i)
     IN ep' = [ep EXCEPT ![p] =
                 IF SetRemoteAnswerOk(e.conn[t.pc])
                   THEN EnterPending(
                          OnTrack([e EXCEPT !.conn[t.pc] = SetRemoteAnswer(@)], t.pc), t)
                   ELSE e]
  /\ UNCHANGED <<inbox, glare>>

\* processPendingIceCandidates: pc.addIceCandidate(candidate) of the loop
\* settled (a rejection is swallowed); the loop goes on or the queue is
\* cleared.
PendingIceStep(p, i) ==
  /\ At(p, i, "iceLoop")
  /\ LET t == ep[p].tasks[i]
         e == Without(p, i)
         list == LoopArray(e, t)
         ok == Accepted(e, e.conn[t.ppc], list[t.idx])
         e1 == IF ok
                 THEN [e EXCEPT !.conn[t.ppc] = AddIceCandidate(@, list[t.idx])]
                 ELSE e
     IN ep' = [ep EXCEPT ![p] =
                 IF LoopGoesOn(ok, t.idx, Len(list))
                   THEN [e1 EXCEPT !.tasks = Append(@, [t EXCEPT !.idx = @ + 1])]
                   ELSE [e1 EXCEPT
                           !.pendingIceCandidates[t.userId] = <<>>,
                           !.tasks = AfterPending(
                              Detach(@, t.userId, e1.pendingIceCandidates[t.userId]),
                              t)]]
  /\ UNCHANGED <<inbox, glare>>

\* pc.createAnswer() settled.
AnswerCreated(p, i) ==
  /\ At(p, i, "createAnswer")
  /\ LET t == ep[p].tasks[i]
         e == Without(p, i)
     IN ep' = [ep EXCEPT ![p] =
                 IF CreateAnswerOk(e.conn[t.pc])
                   THEN [e EXCEPT !.tasks = Append(@, [t EXCEPT !.at = "setLocalAnswer"])]
                   ELSE e]
  /\ UNCHANGED <<inbox, glare>>

\* pc.setLocalDescription(answer) settled: the answer is emitted.
AnswerSetLocal(p, i) ==
  /\ At(p, i, "setLocalAnswer")
  /\ LET t == ep[p].tasks[i]
         e == Without(p, i)
     IN IF SetLocalAnswerOk(e.conn[t.pc])
          THEN /\ ep' = [ep EXCEPT ![p] =
                           [e EXCEPT !.conn[t.pc] = SetLocalAnswer(@)]]
               /\ inbox' = Relay(inbox, Emit(e, p, t.userId, "answer", 0))
          ELSE /\ ep' = [ep EXCEPT ![p] = e]
               /\ UNCHANGED inbox
  /\ UNCHANGED glare

\* pc.addIceCandidate(candidate) of the candidate branch settled.
IceCandidateAdded(p, i) ==
  /\ At(p, i, "addIceCandidate")
  /\ LET t == ep[p].tasks[i]
         e == Without(p, i)
     IN ep' = [ep EXCEPT ![p] =
                 IF Accepted(e, e.conn[t.pc], t.cand)
                   THEN [e EXCEPT !.conn[t.pc] = AddIceCandidate(@, t.cand)]
                   ELSE e]
  /\ UNCHANGED <<inbox, glare>>

----------------------------------------------------------------------------
(* Connection health: pc.onconnectionstatechange and the recovery timer.   *)

\* The changes of pc.connectionState the transport can report.  A connection
\* leaves "new" once a description is set and connects once both are set.
StateChange(r, s) ==
  CASE r.connectionState = "new" ->
         s = "connecting"
           /\ (LocalDescription(r) # "none" \/ RemoteDescription(r) # "none")
    [] r.connectionState = "connecting" ->
         \/ s = "failed"
         \/ s = "connected" /\ r.currentLocal # "none" /\ r.currentRemote # "none"
    [] r.connectionState = "connected" -> s \in {"disconnected", "failed"}
    [] r.connectionState = "disconnected" -> s \in {"connected", "failed"}
    [] r.connectionState = "failed" -> s = "connecting"
    [] OTHER -> FALSE

\* The changes of pc.iceConnectionState the transport can report: checks
\* start once both descriptions are known; failed is left by an ICE restart
\* only, which needs a new offer.
IceStateChange(r, s) ==
  /\ r.signalingState # "closed"
  /\ CASE r.iceConnectionState = "new" ->
            s = "checking"
              /\ LocalDescription(r) # "none" /\ RemoteDescription(r) # "none"
       [] r.iceConnectionState = "checking" -> s \in {"connected", "failed"}
       [] r.iceConnectionState = "connected" -> s \in {"disconnected", "failed"}
       [] r.iceConnectionState = "disconnected" -> s \in {"connected", "failed"}
       [] OTHER -> FALSE

\* A handler that replaces the session when ICE fails.
OnIceStateRecreating(e, c, s) ==
  IF s = "failed"
    THEN CreatePeerConnection([e EXCEPT !.conn[c].iceConnectionState = s],
                              e.conn[c].userId, TRUE)
    ELSE [e EXCEPT !.conn[c].iceConnectionState = s]

\* pc.oniceconnectionstatechange of connection c of e, for the new state s:
\* on failed, pc.restartIce() marks the connection for an ICE restart.
OnIceState(e, c, s) ==
  IF s = "failed"
    THEN [e EXCEPT !.conn[c].iceConnectionState = s, !.conn[c].iceRestart = TRUE]
    ELSE [e EXCEPT !.conn[c].iceConnectionState = s]

IceConnectionStateChange(p, c, s) ==
  /\ c \in DOMAIN ep[p].conn
  /\ IceStateChange(ep[p].conn[c], s)
  /\ Len(ep[p].conn) < MaxConns
  /\ ep' = [ep EXCEPT ![p] = OnIceState(ep[p], c, s)]
  /\ UNCHANGED <<inbox, glare>>

\* The timer's test: the registry's connection of userId is failed.
StillFailed(e, userId) ==
  /\ e.peerConnections[userId] # NoPc
  /\ e.conn[e.peerConnections[userId]].connectionState = "failed"

\* pc.onconnectionstatechange of connection c of p: on "failed" the
\* recovery timer of 2000 ms is set.
ConnectionStateChange(p, c, s) ==
  /\ c \in DOMAIN ep[p].conn
  /\ StateChange(ep[p].conn[c], s)
  /\ IF s = "failed"
       THEN /\ ep[p].fails < ep[p].limit.fails
            /\ Len(ep[p].tasks) < MaxTasks
            /\ ep' = [ep EXCEPT
                 ![p].conn[c].connectionState = s,
                 ![p].conn[c].timers = @ + 1,
                 ![p].fails = @ + 1,
                 ![p].tasks = Append(@, Task("recovery", ep[p].conn[c].userId,
                                             c, "timer", "none", 0))]
       ELSE ep' = [ep EXCEPT ![p].conn[c].connectionState = s]
  /\ UNCHANGED <<inbox, glare>>

\* The recovery timer fires: if the registry's connection is failed, a new
\* one replaces it and newPc.createOffer({iceRestart: true}) is called.
RecoveryTimer(p, i) ==
  /\ At(p, i, "timer")
  /\ Len(ep[p].conn) < MaxConns
  /\ LET t == ep[p].tasks[i]
         e == Without(p, i)
         e1 == CreatePeerConnection(e, t.userId, TRUE)
         newPc == e1.peerConnections[t.userId]
         e2 == AddLocalTracksToConnection(e1, newPc)
     IN ep' = [ep EXCEPT ![p] =
                 IF StillFailed(e, t.userId)
                   THEN [e2 EXCEPT
                           !.conn[t.pc].recreations = @ + 1,
                           !.tasks = Append(@, [t EXCEPT !.pc = newPc,
                                                         !.at = "rCreateOffer"])]
                   ELSE e]
  /\ UNCHANGED <<inbox, glare>>

\* newPc.createOffer({iceRestart: true}) settled.
RecoveryOfferCreated(p, i) ==
  /\ At(p, i, "rCreateOffer")
  /\ LET t == ep[p].tasks[i]
         e == Without(p, i)
     IN ep' = [ep EXCEPT ![p] =
                 IF CreateOfferOk(e.conn[t.pc])
                   THEN [e EXCEPT !.tasks = Append(@, [t EXCEPT !.at = "rSetLocalOffer"])]
                   ELSE e]
  /\ UNCHANGED <<inbox, glare>>

\* newPc.setLocalDescription(offer) settled: the offer is emitted.
RecoveryOfferSetLocal(p, i) ==
  /\ At(p, i, "rSetLocalOffer")
  /\ LET t == ep[p].tasks[i]
         e == Without(p, i)
     IN IF SetLocalOfferOk(e.conn[t.pc])
          THEN /\ ep' = [ep EXCEPT ![p] =
                           [e EXCEPT !.conn[t.pc] = SetLocalOffer(@)]]
               /\ inbox' = Relay(inbox, Emit(e, p, t.userId, "offer", 0))
          ELSE /\ ep' = [ep EXCEPT ![p] = e]
               /\ UNCHANGED inbox
  /\ UNCHANGED glare

----------------------------------------------------------------------------
(* The effect of useWebRTC: media acquisition, then the socket; cleanup.   *)

\* An acquisition that gives up when neither request succeeds.
AcquisitionWithoutEmptyStream(at, ok) ==
  CASE ok /\ at = "gumAV" -> [stream |-> <<Tracks>>, next |-> "none"]
    [] ok /\ at = "gumAudio" -> [stream |-> <<{"audio"}>>, next |-> "none"]
    [] ~ok /\ at = "gumAV" -> [stream |-> <<>>, next |-> "gumAudio"]
    [] OTHER -> [stream |-> <<>>, next |-> "none"]

\* What a getUserMedia request that settles leaves in finalStream (<<>> is
\* null), and the request that follows: video+audio, then audio only, then
\* new MediaStream() without tracks.
Acquisition(at, ok) ==
  CASE ok /\ at = "gumAV" -> [stream |-> <<Tracks>>, next |-> "none"]
    [] ok /\ at = "gumAudio" -> [stream |-> <<{"audio"}>>, next |-> "none"]
    [] ~ok /\ at = "gumAV" -> [stream |-> <<>>, next |-> "gumAudio"]
    [] OTHER -> [stream |-> <<{}>>, next |-> "none"]

\* An effect that creates the socket and leaves the stream aside.
SocketBeforeMedia(e, cancelled, finalStream) ==
  IF cancelled THEN e ELSE [e EXCEPT !.signalingSocket = "open"]

\* The effect after the acquisition: nothing when it was cancelled
\* meanwhile (each run of the effect has its own `cancelled`); else the
\* stream is stored, marked ready and handed to the page, and the socket is
\* created.  pendingSignals is empty here (it was
\* reset when the effect started and no socket existed since), so the loop
\* that drains it does nothing.
AfterAcquisition(e, cancelled, finalStream) ==
  IF cancelled \/ finalStream = <<>> THEN e
  ELSE [e EXCEPT !.localStream = finalStream, !.isStreamReady = TRUE,
                 !.localStreamState = finalStream, !.controlsStale = TRUE,
                 !.signalingSocket = "open"]

\* The instance right after the effect has started: the refs are reset and
\* getUserMedia({video, audio}) is awaited.
Mounted(limit) ==
  [Running({}, limit) EXCEPT
     !.isStreamReady = FALSE, !.localStream = <<>>, !.signalingSocket = "null",
     !.localStreamState = <<>>,
     !.controls = SyncedControls(<<>>, [t \in Tracks |-> TRUE], NoControls),
     !.rendered = RenderOf(SyncedControls(<<>>, [t \in Tracks |-> TRUE],
                                          NoControls)),
     !.tasks = <<Task("effect", NoId, NoPc, "gumAV", "none", 0)>>]

\* A getUserMedia request of the effect settles.
Acquire(p, i, ok) ==
  /\ i \in DOMAIN ep[p].tasks
  /\ ep[p].tasks[i].kind = "effect"
  /\ LET t == ep[p].tasks[i]
         a == Acquisition(t.at, ok)
         e == [Without(p, i) EXCEPT
                 !.live = IF a.stream = <<>> THEN @ ELSE @ \cup a.stream[1]]
     IN ep' = [ep EXCEPT ![p] =
                 IF a.next # "none"
                   THEN [e EXCEPT !.tasks = Append(@, [t EXCEPT !.at = a.next])]
                   ELSE AfterAcquisition(e, t.stale, a.stream)]
  /\ UNCHANGED <<inbox, glare>>

\* The cleanup's resets of the flags and queues (cancelled, isStreamReady,
\* pendingSignals, localSocketId, makingOffer, pendingIceCandidates); a loop
\* of processPendingIceCandidates keeps the array it iterates.  Every
\* function suspended now belongs to the run of the effect that ends here.
ResetFlags(e) ==
  [e EXCEPT
     !.cancelled = TRUE, !.isStreamReady = FALSE, !.pendingSignals = <<>>,
     !.localSocketId = NoId,
     !.makingOffer = [q \in Peers |-> FALSE],
     !.pendingIceCandidates = [q \in Peers |-> <<>>],
     !.tasks = [k \in DOMAIN e.tasks |->
                  IF e.tasks[k].at = "iceLoop" /\ e.tasks[k].alias
                    THEN [e.tasks[k] EXCEPT
                            !.stale = TRUE, !.alias = FALSE,
                            !.pend = e.pendingIceCandidates[e.tasks[k].userId]]
                    ELSE [e.tasks[k] EXCEPT !.stale = TRUE]]]

\* A cleanup that resets the flags and leaves stream, socket and sessions.
TearDownOfFlagsOnly(e) == ResetFlags(e)

\* The cleanup of the effect: cancelled is set, the flags and queues are
\* reset, the socket is disconnected, the tracks of the stream are stopped
\* and the connections of the registry are closed.
TearDown(e) ==
  [ResetFlags(e) EXCEPT
     !.signalingSocket = "null",
     !.live = IF e.localStream = <<>> THEN @ ELSE @ \ e.localStream[1],
     !.localStream = <<>>,
     !.conn = [c \in DOMAIN e.conn |->
                 IF \E q \in Peers : e.peerConnections[q] = c
                   THEN ClosePc(e.conn[c]) ELSE e.conn[c]],
     !.peerConnections = [q \in Peers |-> NoPc]]

\* The page leaves the meeting: the effect's cleanup runs.
Cleanup(p) ==
  /\ ~ep[p].cancelled
  /\ ep[p].exits < ep[p].limit.exits
  /\ ep' = [ep EXCEPT ![p] = [TearDown(ep[p]) EXCEPT !.exits = @ + 1]]
  /\ inbox' = [inbox EXCEPT ![p] = <<>>]
  /\ UNCHANGED glare

\* The effect runs again after a cleanup (meetingId or username changed):
\* the flags and queues are reset once more and getUserMedia is requested.
\* e.cancelled stands for "no run of the effect is active".
Mount(p) ==
  /\ ep[p].cancelled
  /\ ep[p].exits < ep[p].limit.exits
  /\ Len(ep[p].tasks) < MaxTasks
  /\ ep' = [ep EXCEPT ![p] =
              [ResetFlags(ep[p]) EXCEPT
                 !.cancelled = FALSE,
                 !.tasks = Append(ep[p].tasks,
                                  Task("effect", NoId, NoPc, "gumAV", "none", 0))]]
  /\ UNCHANGED <<inbox, glare>>

----------------------------------------------------------------------------
(* The page's media controls.                                              *)

\* The effect of useMediaControls runs for the stream the page now holds,
\* and the hook renders with the state the effect has set.
SyncControls(p) ==
  /\ ep[p].controlsStale
  /\ LET c == SyncedControls(ep[p].localStreamState, ep[p].enabled,
                             ep[p].controls)
     IN ep' = [ep EXCEPT ![p].controls = c,
                         ![p].rendered = RenderOf(c),
                         ![p].controlsStale = FALSE]
  /\ UNCHANGED <<inbox, glare>>

\* The hook renders again after a change of its state: toggleMute and
\* toggleCamera are created anew with the current isMuted and isCameraOff.
Render(p) ==
  /\ ep[p].rendered # RenderOf(ep[p].controls)
  /\ ep' = [ep EXCEPT ![p].rendered = RenderOf(ep[p].controls)]
  /\ UNCHANGED <<inbox, glare>>

ToggleMute(p) ==
  /\ ep[p].toggles < ep[p].limit.toggles
  /\ ep' = [ep EXCEPT ![p] = [ToggleMuteOf(ep[p]) EXCEPT !.toggles = @ + 1]]
  /\ UNCHANGED <<inbox, glare>>

ToggleCamera(p) ==
  /\ ep[p].toggles < ep[p].limit.toggles
  /\ ep' = [ep EXCEPT ![p] = [ToggleCameraOf(ep[p]) EXCEPT !.toggles = @ + 1]]
  /\ UNCHANGED <<inbox, glare>>

----------------------------------------------------------------------------
(* Negotiation between two running instances, each announced to the other. *)

TaskIds == 1..(MaxTasks + 1)
ConnIds == 1..(MaxConns + 1)

NextGlare ==
  \/ \E p \in Peers : SocketConnect(p)
  \/ \E p \in Peers, q \in Peers : NewUserConnected(p, q)
  \/ \E p \in Peers : Signal(p)
  \/ \E p \in Peers, i \in TaskIds : OfferDelayDone(p, i)
  \/ \E p \in Peers, i \in TaskIds : OfferCreated(p, i)
  \/ \E p \in Peers, i \in TaskIds : OfferSetLocal(p, i)
  \/ \E p \in Peers, i \in TaskIds : RollbackDone(p, i)
  \/ \E p \in Peers, i \in TaskIds : RemoteOfferSet(p, i)
  \/ \E p \in Peers, i \in TaskIds : AnswerCreated(p, i)
  \/ \E p \in Peers, i \in TaskIds : AnswerSetLocal(p, i)
  \/ \E p \in Peers, i \in TaskIds : RemoteAnswerSet(p, i)

SpecGlare == Init /\ [][NextGlare]_vars

----------------------------------------------------------------------------
(* Negotiation with ICE candidates.                                        *)

NextIce ==
  \/ NextGlare
  \/ \E p \in Peers, c \in ConnIds :
       c \in DOMAIN ep[p].conn /\ IceCandidate(p, c)
  \/ \E p \in Peers, i \in TaskIds : PendingIceStep(p, i)
  \/ \E p \in Peers, i \in TaskIds : IceCandidateAdded(p, i)

InitIce ==
  /\ ep = Meeting(Running(Tracks, Limit(MaxJoinsIce, MaxCand, 0)),
                  Running(Tracks, Limit(MaxJoinsIce, MaxCand, 0)))
  /\ inbox = [p \in Peers |-> <<>>]
  /\ glare = FALSE

SpecIce == InitIce /\ [][NextIce]_vars

\* The same negotiation where the first candidate each instance generates
\* is one the transport of the other rejects.
InitReject ==
  /\ ep = Meeting([Running(Tracks, Limit(MaxJoinsIce, MaxCand, 0)) EXCEPT
                     !.malformed = {1}],
                  [Running(Tracks, Limit(MaxJoinsIce, MaxCand, 0)) EXCEPT
                     !.malformed = {1}])
  /\ inbox = [p \in Peers |-> <<>>]
  /\ glare = FALSE

SpecReject == InitReject /\ [][NextIce]_vars

----------------------------------------------------------------------------
(* Failure and recovery: instance 1 is told of instance 2 and offers; the  *)
(* transport reports connection-state changes to instance 1.               *)

InitRecovery ==
  /\ ep = Meeting(Running(Tracks, Limit(MaxJoinsRecovery, 0, MaxFails)),
                  Running(Tracks, Limit(0, 0, 0)))
  /\ inbox = [p \in Peers |-> <<>>]
  /\ glare = FALSE

NextRecovery ==
  \/ \E p \in Peers : SocketConnect(p)
  \/ \E p \in Peers, q \in Peers : NewUserConnected(p, q)
  \/ \E p \in Peers : Signal(p)
  \/ \E p \in Peers, i \in TaskIds : OfferDelayDone(p, i)
  \/ \E p \in Peers, i \in TaskIds : OfferCreated(p, i)
  \/ \E p \in Peers, i \in TaskIds : OfferSetLocal(p, i)
  \/ \E p \in Peers, i \in TaskIds : RemoteOfferSet(p, i)
  \/ \E p \in Peers, i \in TaskIds : AnswerCreated(p, i)
  \/ \E p \in Peers, i \in TaskIds : AnswerSetLocal(p, i)
  \/ \E p \in Peers, i \in TaskIds : RemoteAnswerSet(p, i)
  \/ \E p \in Peers, c \in ConnIds, s \in {"connecting", "connected", "disconnected", "failed"} :
       ConnectionStateChange(p, c, s)
  \/ \E p \in Peers, i \in TaskIds : RecoveryTimer(p, i)
  \/ \E p \in Peers, i \in TaskIds : RecoveryOfferCreated(p, i)
  \/ \E p \in Peers, i \in TaskIds : RecoveryOfferSetLocal(p, i)

SpecRecovery == InitRecovery /\ [][NextRecovery]_vars

----------------------------------------------------------------------------
(* Properties.                                                             *)

\* The connection the registry of p holds for q.
Registered(p, q) == ep[p].conn[ep[p].peerConnections[q]]

\* Nothing is suspended and nothing is under way between the instances.
Quiescent == \A p \in Peers : ep[p].tasks = <<>> /\ inbox[p] = <<>>

\* p holds one connection, for q, in signalingState stable, with every local
\* track attached once.
OneStableSession(p, q) ==
  /\ ep[p].peerConnections[q] # NoPc
  /\ Len(ep[p].conn) = 1
  /\ Registered(p, q).signalingState = "stable"
  /\ \A t \in Tracks : Registered(p, q).senders[t] = 1

\* The offer of the impolite instance 2 was applied and answered by the
\* polite instance 1, whose own offer is gone.
ImpoliteOfferWon ==
  /\ OneStableSession(1, 2) /\ OneStableSession(2, 1)
  /\ Registered(1, 2).currentRemote = "offer"
  /\ Registered(1, 2).currentLocal = "answer"
  /\ Registered(2, 1).currentLocal = "offer"
  /\ Registered(2, 1).currentRemote = "answer"

----------------------------------------------------------------------------
(* Media: instance 1 acquires its stream, negotiates with the running      *)
(* instance 2, toggles its tracks and may leave.                           *)

InitMedia ==
  /\ ep = Meeting(Mounted(SessionLimit(MaxJoinsMedia, 0, MaxToggles, 1)),
                  Running(Tracks, SessionLimit(MaxJoinsMedia, 0, 0, 0)))
  /\ inbox = [p \in Peers |-> <<>>]
  /\ glare = FALSE

NextMedia ==
  \/ \E p \in Peers, i \in TaskIds, ok \in BOOLEAN : Acquire(p, i, ok)
  \/ \E p \in Peers : Cleanup(p)
  \/ \E p \in Peers : SyncControls(p)
  \/ \E p \in Peers : Render(p)
  \/ \E p \in Peers : ToggleMute(p)
  \/ \E p \in Peers : ToggleCamera(p)
  \/ NextGlare

SpecMedia == InitMedia /\ [][NextMedia]_vars

----------------------------------------------------------------------------
(* Exit: instance 1 acquires its stream, negotiates with the running       *)
(* instance 2, sees its connections fail and recover, and leaves.          *)

InitExit ==
  /\ ep = Meeting(Mounted(SessionLimit(MaxJoinsExit, MaxFailsExit, 0, 1)),
                  Running(Tracks, SessionLimit(MaxJoinsExit, 0, 0, 0)))
  /\ inbox = [p \in Peers |-> <<>>]
  /\ glare = FALSE

NextExit ==
  \/ \E p \in Peers, i \in TaskIds, ok \in BOOLEAN : Acquire(p, i, ok)
  \/ \E p \in Peers : Cleanup(p)
  \/ NextRecovery

SpecExit == InitExit /\ [][NextExit]_vars

----------------------------------------------------------------------------
(* Re-entry: instance 1 leaves and its effect runs again while functions   *)
(* of the first run are still suspended.                                   *)

InitReentry ==
  /\ ep = Meeting(Mounted(SessionLimit(MaxJoinsReentry, 0, 0, MaxExits)),
                  Running(Tracks, SessionLimit(0, 0, 0, 0)))
  /\ inbox = [p \in Peers |-> <<>>]
  /\ glare = FALSE

NextReentry ==
  \/ \E p \in Peers, i \in TaskIds, ok \in BOOLEAN : Acquire(p, i, ok)
  \/ \E p \in Peers : Cleanup(p)
  \/ \E p \in Peers : Mount(p)
  \/ \E p \in Peers : SocketConnect(p)
  \/ \E p \in Peers, q \in Peers : NewUserConnected(p, q)
  \/ \E p \in Peers : Signal(p)
  \/ \E p \in Peers, i \in TaskIds : OfferDelayDone(p, i)
  \/ \E p \in Peers, i \in TaskIds : OfferCreated(p, i)
  \/ \E p \in Peers, i \in TaskIds : OfferSetLocal(p, i)
  \/ \E p \in Peers, i \in TaskIds : RemoteOfferSet(p, i)
  \/ \E p \in Peers, i \in TaskIds : AnswerCreated(p, i)
  \/ \E p \in Peers, i \in TaskIds : AnswerSetLocal(p, i)
  \/ \E p \in Peers, i \in TaskIds : RemoteAnswerSet(p, i)

SpecReentry == InitReentry /\ [][NextReentry]_vars

----------------------------------------------------------------------------
(* Departure: the instances negotiate and exchange candidates; instance 2  *)
(* leaves the meeting and instance 1 is told so.                           *)

InitDeparture ==
  /\ ep = Meeting(Running(Tracks, DepartureLimit(MaxJoinsDeparture,
                                                 MaxCandDeparture, 0, 1)),
                  Running(Tracks, DepartureLimit(MaxJoinsDeparture,
                                                 MaxCandDeparture, 1, 0)))
  /\ inbox = [p \in Peers |-> <<>>]
  /\ glare = FALSE

NextDeparture ==
  \/ NextIce
  \/ \E p \in Peers : Cleanup(p)
  \/ \E p \in Peers, q \in Peers : UserDisconnected(p, q)

SpecDeparture == InitDeparture /\ [][NextDeparture]_vars

----------------------------------------------------------------------------
(* Leaving after a failure: instance 1 offers to instance 2, its            *)
(* connections fail, recover and generate candidates; instance 2 leaves    *)
(* the meeting and instance 1 is told so.                                  *)

InitLeave ==
  /\ ep = Meeting(Running(Tracks, EventLimit(MaxJoinsLeave, MaxCandLeave,
                                             MaxFailsLeave, 0, 1)),
                  Running(Tracks, EventLimit(0, 0, 0, 1, 0)))
  /\ inbox = [p \in Peers |-> <<>>]
  /\ glare = FALSE

NextLeave ==
  \/ NextRecovery
  \/ \E p \in Peers, c \in ConnIds :
       c \in DOMAIN ep[p].conn /\ IceCandidate(p, c)
  \/ \E p \in Peers, i \in TaskIds : PendingIceStep(p, i)
  \/ \E p \in Peers, i \in TaskIds : IceCandidateAdded(p, i)
  \/ \E p \in Peers : Cleanup(p)
  \/ \E p \in Peers, q \in Peers : UserDisconnected(p, q)

SpecLeave == InitLeave /\ [][NextLeave]_vars

----------------------------------------------------------------------------
(* Three participants: instance 1 is told of instances 2 and 3 and offers  *)
(* to both; the transport reports the states of the connections of         *)
(* instance 1, which fail and recover; instance 3 may leave.               *)

InitCross ==
  /\ ep = [p \in Peers |->
             IF p = 1
               THEN Running(Tracks, EventLimit(MaxJoinsCross, 0,
                                               MaxFailsCross, 0, 1))
             ELSE IF p = 2 THEN Running(Tracks, EventLimit(0, 0, 0, 0, 0))
             ELSE Running(Tracks, EventLimit(0, 0, 0, 1, 0))]
  /\ inbox = [p \in Peers |-> <<>>]
  /\ glare = FALSE

NextCross ==
  \/ \E p \in Peers : SocketConnect(p)
  \/ \E p \in Peers, q \in Peers : NewUserConnected(p, q)
  \/ \E p \in Peers : Signal(p)
  \/ \E p \in Peers, i \in TaskIds : OfferDelayDone(p, i)
  \/ \E p \in Peers, i \in TaskIds : OfferCreated(p, i)
  \/ \E p \in Peers, i \in TaskIds : OfferSetLocal(p, i)
  \/ \E p \in Peers, i \in TaskIds : RemoteOfferSet(p, i)
  \/ \E p \in Peers, i \in TaskIds : AnswerCreated(p, i)
  \/ \E p \in Peers, i \in TaskIds : AnswerSetLocal(p, i)
  \/ \E p \in Peers, i \in TaskIds : RemoteAnswerSet(p, i)
  \/ \E c \in ConnIds, s \in {"connecting", "connected", "disconnected", "failed"} :
       ConnectionStateChange(1, c, s)
  \/ \E p \in Peers, i \in TaskIds : RecoveryTimer(p, i)
  \/ \E p \in Peers, i \in TaskIds : RecoveryOfferCreated(p, i)
  \/ \E p \in Peers, i \in TaskIds : RecoveryOfferSetLocal(p, i)
  \/ \E p \in Peers : Cleanup(p)
  \/ \E p \in Peers, q \in Peers : UserDisconnected(p, q)

SpecCross == InitCross /\ [][NextCross]_vars

----------------------------------------------------------------------------
(* ICE failure: instance 1 offers to instance 2; the transport reports the *)
(* ICE connection states and the connection states of the connections of   *)
(* instance 1.                                                             *)

InitIceFailure ==
  /\ ep = Meeting(Running(Tracks, EventLimit(MaxJoinsIceFailure, 0,
                                             MaxFailsIceFailure, 0, 0)),
                  Running(Tracks, EventLimit(0, 0, 0, 0, 0)))
  /\ inbox = [p \in Peers |-> <<>>]
  /\ glare = FALSE

NextIceFailure ==
  \/ \E p \in Peers : SocketConnect(p)
  \/ \E p \in Peers, q \in Peers : NewUserConnected(p, q)
  \/ \E p \in Peers : Signal(p)
  \/ \E p \in Peers, i \in TaskIds : OfferDelayDone(p, i)
  \/ \E p \in Peers, i \in TaskIds : OfferCreated(p, i)
  \/ \E p \in Peers, i \in TaskIds : OfferSetLocal(p, i)
  \/ \E p \in Peers, i \in TaskIds : RemoteOfferSet(p, i)
  \/ \E p \in Peers, i \in TaskIds : AnswerCreated(p, i)
  \/ \E p \in Peers, i \in TaskIds : AnswerSetLocal(p, i)
  \/ \E p \in Peers, i \in TaskIds : RemoteAnswerSet(p, i)
  \/ \E c \in ConnIds, s \in {"checking", "connected", "disconnected", "failed"} :
       IceConnectionStateChange(1, c, s)
  \/ \E c \in ConnIds, s \in {"connecting", "connected", "disconnected", "failed"} :
       ConnectionStateChange(1, c, s)
  \/ \E p \in Peers, i \in TaskIds : RecoveryTimer(p, i)
  \/ \E p \in Peers, i \in TaskIds : RecoveryOfferCreated(p, i)
  \/ \E p \in Peers, i \in TaskIds : RecoveryOfferSetLocal(p, i)

SpecIceFailure == InitIceFailure /\ [][NextIceFailure]_vars

----------------------------------------------------------------------------
(* Failure on both sides: instance 1 offers to instance 2 and the          *)
(* transport reports connection-state changes to both.                     *)

InitMutual ==
  /\ ep = Meeting(Running(Tracks, EventLimit(MaxJoinsMutual, 0, MaxFailsMutual, 0, 0)),
                  Running(Tracks, EventLimit(0, 0, MaxFailsMutual, 0, 0)))
  /\ inbox = [p \in Peers |-> <<>>]
  /\ glare = FALSE

NextMutual ==
  \/ NextRecovery
  \/ \E p \in Peers, i \in TaskIds : RollbackDone(p, i)

SpecMutual == InitMutual /\ [][NextMutual]_vars

----------------------------------------------------------------------------
(* Departure while a recovery timer is pending: instance 2 offers to       *)
(* instance 1, the sessions of instance 1 may fail, instance 2 leaves and  *)
(* instance 1 is told of it.                                               *)

InitGone ==
  /\ ep = Meeting(Running(Tracks, EventLimit(0, 0, MaxFailsGone, 0, 1)),
                  Running(Tracks, EventLimit(MaxJoinsGone, 0, 0, 1, 0)))
  /\ inbox = [p \in Peers |-> <<>>]
  /\ glare = FALSE

NextGone ==
  \/ \E p \in Peers : SocketConnect(p)
  \/ \E p \in Peers, q \in Peers : NewUserConnected(p, q)
  \/ \E p \in Peers : Signal(p)
  \/ \E p \in Peers, i \in TaskIds : OfferDelayDone(p, i)
  \/ \E p \in Peers, i \in TaskIds : OfferCreated(p, i)
  \/ \E p \in Peers, i \in TaskIds : OfferSetLocal(p, i)
  \/ \E p \in Peers, i \in TaskIds : RemoteOfferSet(p, i)
  \/ \E p \in Peers, i \in TaskIds : AnswerCreated(p, i)
  \/ \E p \in Peers, i \in TaskIds : AnswerSetLocal(p, i)
  \/ \E p \in Peers, i \in TaskIds : RemoteAnswerSet(p, i)
  \/ \E c \in ConnIds, s \in {"connecting", "connected", "disconnected", "failed"} :
       ConnectionStateChange(1, c, s)
  \/ \E p \in Peers, i \in TaskIds : RecoveryTimer(p, i)
  \/ \E p \in Peers, i \in TaskIds : RecoveryOfferCreated(p, i)
  \/ \E p \in Peers, i \in TaskIds : RecoveryOfferSetLocal(p, i)
  \/ \E p \in Peers : Cleanup(p)
  \/ \E p \in Peers, q \in Peers : UserDisconnected(p, q)

SpecGone == InitGone /\ [][NextGone]_vars

----------------------------------------------------------------------------
(* The socket's events over the life of the effect: instance 1 mounts,     *)
(* acquires its media, is told of the users in the room and of newcomers,  *)
(* exchanges signals, leaves and mounts again; instance 2 is told of it.   *)

InitSocket ==
  /\ ep = Meeting(Mounted(EventLimit(MaxJoinsSocket, 0, 0, MaxExitsSocket, 0)),
                  Running(Tracks, EventLimit(MaxJoinsSocket, 0, 0, 0, 1)))
  /\ inbox = [p \in Peers |-> <<>>]
  /\ glare = FALSE

NextSocket ==
  \/ NextReentry
  \/ \E p \in Peers, i \in TaskIds : RollbackDone(p, i)
  \/ \E p \in Peers : UsersInRoom(p)
  \/ \E p \in Peers, q \in Peers : UserDisconnected(p, q)

SpecSocket == InitSocket /\ [][NextSocket]_vars

----------------------------------------------------------------------------
(* A join: instance 1 enters the room in which instances 2 and 3 are; the  *)
(* server sends it usersInRoom and announces it once to each of the two by *)
(* newUserConnected.  No connection fails.                                 *)

Newcomer == 1

InitJoin ==
  /\ ep = [p \in Peers |->
            IF p = Newcomer THEN Running(Tracks, EventLimit(0, 0, 0, 0, 0))
            ELSE Running(Tracks, EventLimit(1, 0, 0, 0, 0))]
  /\ inbox = [p \in Peers |-> <<>>]
  /\ glare = FALSE

NextJoin ==
  \/ \E p \in Peers : SocketConnect(p)
  \/ UsersInRoom(Newcomer)
  \/ \E p \in Peers : NewUserConnected(p, Newcomer)
  \/ \E p \in Peers : Signal(p)
  \/ \E p \in Peers, i \in TaskIds : OfferDelayDone(p, i)
  \/ \E p \in Peers, i \in TaskIds : OfferCreated(p, i)
  \/ \E p \in Peers, i \in TaskIds : OfferSetLocal(p, i)
  \/ \E p \in Peers, i \in TaskIds : RemoteOfferSet(p, i)
  \/ \E p \in Peers, i \in TaskIds : AnswerCreated(p, i)
  \/ \E p \in Peers, i \in TaskIds : AnswerSetLocal(p, i)
  \/ \E p \in Peers, i \in TaskIds : RemoteAnswerSet(p, i)

\* What the event loop of instance p has to do in a join: the events of its
\* socket and the continuations of its awaits.
JoinStep(p) ==
  \/ SocketConnect(p)
  \/ p = Newcomer /\ UsersInRoom(p)
  \/ NewUserConnected(p, Newcomer)
  \/ Signal(p)
  \/ \E i \in TaskIds :
       \/ OfferDelayDone(p, i) \/ OfferCreated(p, i) \/ OfferSetLocal(p, i)
       \/ RemoteOfferSet(p, i) \/ AnswerCreated(p, i)
       \/ AnswerSetLocal(p, i) \/ RemoteAnswerSet(p, i)

SpecJoin == InitJoin /\ [][NextJoin]_vars

\* The event loop of every instance runs each callback that is due, and the
\* server delivers its events.
FairJoin == SpecJoin /\ \A p \in Peers : WF_vars(JoinStep(p))

\* C1: when both instances started createOfferTo towards each other while the
\* other's offer was under way (glare), then once every async step has run
\* and every signal is handled both sessions are stable, the impolite side's
\* offer is the one applied and answered, and each side holds one connection.
C1_GlareConverges == (glare /\ Quiescent) => ImpoliteOfferWon

\* C2: whenever the rollback that the polite side requests for a colliding
\* offer settles, the local description is rolled back and the handler goes
\* on to set the incoming offer as remote description (and then answers),
\* however the collision arose.
C2_PoliteCollisionAccepted ==
  [][\A p \in Peers, i \in TaskIds :
       RollbackDone(p, i) =>
         \E k \in DOMAIN ep'[p].tasks :
           /\ ep'[p].tasks[k].at = "setRemoteOffer"
           /\ ep'[p].tasks[k].userId = ep[p].tasks[i].userId]_vars

\* C3: of two distinct instances that have each evaluated the politeness rule
\* on an offer of the other, exactly one found itself polite.
C3_ExactlyOnePolite ==
  \A p \in Peers, q \in Peers :
    (p # q /\ ep[p].politeEval[q] # "none" /\ ep[q].politeEval[p] # "none")
      => ep[p].politeEval[q] # ep[q].politeEval[p]

C3_BothEvaluated ==
  ep[1].politeEval[2] # "none" /\ ep[2].politeEval[1] # "none"

\* The offer at the head of p's inbox comes from a lower id (p is impolite)
\* and collides: p is making an offer to the sender or the session is not
\* stable.
ImpoliteCollision(p) ==
  /\ inbox[p] # <<>>
  /\ Head(inbox[p]).type = "offer"
  /\ Head(inbox[p]).from < p
  /\ ep[p].peerConnections[Head(inbox[p]).from] # NoPc
  /\ \/ ep[p].makingOffer[Head(inbox[p]).from]
     \/ Registered(p, Head(inbox[p]).from).signalingState # "stable"

\* C4: when the impolite side handles an offer during a collision, nothing
\* of the instance changes (sessions, descriptions, tracks, pending ICE
\* queue, suspended functions) and no signal is emitted.
C4_ImpoliteIgnoresOffer ==
  [][\A p \in Peers :
       (Signal(p) /\ ImpoliteCollision(p)) =>
         /\ Program(ep'[p]) = Program(ep[p])
         /\ \A q \in Peers \ {p} : inbox'[q] = inbox[q]]_vars

C4_OfferIgnored ==
  \E p \in Peers :
    /\ "ignoredOffer" \in ep[p].seen
    /\ \E q \in Peers : ep[p].makingOffer[q]

\* The answer at the head of p's inbox meets a session that awaits none.
UnexpectedAnswer(p) ==
  /\ inbox[p] # <<>>
  /\ Head(inbox[p]).type = "answer"
  /\ ep[p].peerConnections[Head(inbox[p]).from] # NoPc
  /\ Registered(p, Head(inbox[p]).from).signalingState # "have-local-offer"

\* C5: an answer handled while the session is not in have-local-offer changes
\* nothing of the instance (no setRemoteDescription is called), and a
\* setRemoteDescription(answer) that settles while the connection is not in
\* have-local-offer leaves the connection as it is.
C5_AnswerOnlyWhenExpected ==
  [][\A p \in Peers :
       /\ (Signal(p) /\ UnexpectedAnswer(p)) => Program(ep'[p]) = Program(ep[p])
       /\ \A i \in TaskIds :
            (RemoteAnswerSet(p, i)
               /\ ep[p].conn[ep[p].tasks[i].pc].signalingState # "have-local-offer")
              => ep'[p].conn = ep[p].conn]_vars

C5_AnswerDropped ==
  \E p \in Peers :
    /\ "droppedAnswer" \in ep[p].seen
    /\ \E c \in DOMAIN ep[p].conn : ep[p].conn[c].currentRemote = "answer"

\* The candidates of s that waited in the queue of peer q, as applied.
QueuedAmong(p, q, s) == SelectSeq(s, LAMBDA x : x \in ep[p].everQueued[q])

StrictlyIncreasing(s) ==
  \A i \in DOMAIN s, j \in DOMAIN s : i < j => s[i] < s[j]

AppliedSet(r) == {r.applied[k] : k \in DOMAIN r.applied}

\* C6: the candidates of a peer are numbered in the order of their arrival;
\* on every connection the queued candidates that were applied are applied
\* once and in that order, and when nothing is suspended or under way and
\* the session has a remote description, the queue is empty and every
\* candidate that was queued has been applied.
C6_QueuedCandidatesOnceInOrder ==
  \A p \in Peers :
    /\ \A c \in DOMAIN ep[p].conn :
         StrictlyIncreasing(QueuedAmong(p, ep[p].conn[c].userId, ep[p].conn[c].applied))
    /\ \A q \in Peers :
         (Quiescent /\ ep[p].peerConnections[q] # NoPc
            /\ RemoteDescription(Registered(p, q)) # "none")
           => /\ ep[p].pendingIceCandidates[q] = <<>>
              /\ ep[p].everQueued[q] \subseteq AppliedSet(Registered(p, q))

\* C8: a signal of q whose handling has an effect on p is handled only when
\* no handler of an earlier signal of q is still suspended, so that every
\* effect of the earlier signal comes first.
C8_SignalsOfOnePeerInOrder ==
  [][\A p \in Peers :
       (Signal(p) /\ Program(ep'[p]) # Program(ep[p])) =>
         ~\E i \in DOMAIN ep[p].tasks :
            /\ ep[p].tasks[i].kind = "handleSignal"
            /\ ep[p].tasks[i].userId = Head(inbox[p]).from]_vars

\* C9: every connection that is not the registry's connection of its peer is
\* closed, so an instance holds at most one connection per peer that is not
\* closed.
C9_StaleConnectionClosed ==
  \A p \in Peers : \A c \in DOMAIN ep[p].conn :
    ep[p].peerConnections[ep[p].conn[c].userId] # c
      => ep[p].conn[c].connectionState = "closed"

\* C10: the recovery timers set by the failures of one connection replace a
\* session at most once.
C10_OneRecreationPerSession ==
  \A p \in Peers : \A c \in DOMAIN ep[p].conn : ep[p].conn[c].recreations <= 1

\* An instance without the part the media controls own: the enabled flags
\* of the local tracks and isMuted, isCameraOff, hasMic, hasCamera.
WithoutMediaControls(e) ==
  [Program(e) EXCEPT !.enabled = [t \in Tracks |-> TRUE],
                     !.controls = NoControls, !.rendered = RenderOf(NoControls)]

\* C11: a call of toggleMute or toggleCamera changes nothing but the enabled
\* flags of the local tracks and the values of the controls: the sessions
\* (signaling state, descriptions, attached tracks), the registry and the
\* suspended functions stay as they are and no signal is emitted.
C11_TogglesLeaveSessions ==
  [][\A p \in Peers :
       (ToggleMute(p) \/ ToggleCamera(p)) =>
         /\ WithoutMediaControls(ep'[p]) = WithoutMediaControls(ep[p])
         /\ inbox' = inbox
         /\ \A q \in Peers \ {p} : ep'[q] = ep[q]]_vars

C11_MutedDuringNegotiation ==
  \E p \in Peers :
    /\ ~ep[p].enabled["audio"] /\ ep[p].controls.isMuted
    /\ \E c \in DOMAIN ep[p].conn :
         /\ ep[p].conn[c].senders["audio"] = 1
         /\ ep[p].conn[c].signalingState = "have-local-offer"

\* C12: once the cleanup of the effect has run, every connection the
\* instance created is closed, no track it acquired is live, the socket is
\* gone, and the registry, the pending signals, the pending ICE queues and
\* the makingOffer flags are empty.
C12_ExitReleasesEverything ==
  \A p \in Peers :
    ep[p].cancelled =>
      /\ \A c \in DOMAIN ep[p].conn : ep[p].conn[c].signalingState = "closed"
      /\ ep[p].live = {}
      /\ ep[p].signalingSocket = "null"
      /\ ep[p].pendingSignals = <<>>
      /\ \A q \in Peers :
           /\ ep[p].peerConnections[q] = NoPc
           /\ ep[p].pendingIceCandidates[q] = <<>>
           /\ ~ep[p].makingOffer[q]

\* The refs the cleanup resets and a later step could write: the registry,
\* the pending ICE queues and the makingOffer flags.
ResetRefs(e) ==
  [peerConnections |-> e.peerConnections,
   pendingIceCandidates |-> e.pendingIceCandidates,
   makingOffer |-> e.makingOffer]

\* Task i of p was suspended when a cleanup ran, and resumes in this step.
StaleStep(p, i) ==
  /\ i \in DOMAIN ep[p].tasks
  /\ ep[p].tasks[i].stale
  /\ \/ OfferDelayDone(p, i) \/ OfferCreated(p, i) \/ OfferSetLocal(p, i)
     \/ RollbackDone(p, i) \/ RemoteOfferSet(p, i) \/ RemoteAnswerSet(p, i)
     \/ PendingIceStep(p, i) \/ AnswerCreated(p, i) \/ AnswerSetLocal(p, i)
     \/ IceCandidateAdded(p, i) \/ RecoveryTimer(p, i)
     \/ RecoveryOfferCreated(p, i) \/ RecoveryOfferSetLocal(p, i)

\* C13: a createOfferTo, handleSignal, processPendingIceCandidates or
\* recovery timer that was suspended when the cleanup ran is a no-op when it
\* resumes: the registry, the pending ICE queues and the makingOffer flags
\* keep their values and no signal is emitted.
C13_StaleStepsAreNoOps ==
  [][\A p \in Peers, i \in TaskIds :
       StaleStep(p, i) =>
         /\ ResetRefs(ep'[p]) = ResetRefs(ep[p])
         /\ inbox' = inbox]_vars

\* The last getUserMedia request of a run of the effect that was not
\* cancelled settles in this step of p, with success or not.
AcquisitionEnds(p) ==
  \E i \in TaskIds, ok \in BOOLEAN :
    /\ Acquire(p, i, ok)
    /\ ~ep[p].tasks[i].stale
    /\ Acquisition(ep[p].tasks[i].at, ok).next = "none"

\* C14: whatever the outcome of the acquisition (video and audio, audio
\* only, or no track at all), the step that ends it in a run that was not
\* cancelled turns the ready flag from false to true, stores the stream and
\* creates the socket, which did not exist before; and the ready flag and
\* the socket appear in no other step.
C14_AcquisitionAlwaysReady ==
  [][\A p \in Peers :
       /\ AcquisitionEnds(p) =>
            /\ ~ep[p].isStreamReady /\ ep'[p].isStreamReady
            /\ ep'[p].localStream # <<>>
            /\ ep[p].signalingSocket = "null"
            /\ ep'[p].signalingSocket = "open"
       /\ (~ep[p].isStreamReady /\ ep'[p].isStreamReady) => AcquisitionEnds(p)
       /\ (ep[p].signalingSocket = "null" /\ ep'[p].signalingSocket # "null")
            => AcquisitionEnds(p)]_vars

C14_ReadyWithoutTracks ==
  \E p \in Peers :
    /\ ep[p].isStreamReady /\ ep[p].localStream = <<{}>>
    /\ ep[p].signalingSocket = "connected"
    /\ ep[p].exits > 0

\* The acquisition of e failed entirely: it is ready with a stream of no track.
Trackless(e) == e.isStreamReady /\ e.localStream = <<{}>>

\* The signal of the given type that p sent to q arrives last in q's inbox.
Sent(p, q, type) ==
  inbox'[q] = Append(inbox[q], [from |-> p, type |-> type, cand |-> 0])

\* C15: an instance whose acquisition gave no track still negotiates: told of
\* a new peer it starts createOfferTo for it (makingOffer is set, the offer is
\* created after the delay and sent once it is the local description), an
\* incoming offer it does not ignore is set as remote description and
\* answered, no track is attached to any of its connections, and the
\* controls report neither microphone nor camera.
C15_TracklessStillNegotiates ==
  [][\A p \in Peers : \A q \in Peers \ {p} :
       /\ (Trackless(ep[p]) /\ NewUserConnected(p, q)
              /\ ep[p].peerConnections[q] = NoPc)
            => /\ ep'[p].makingOffer[q]
               /\ \E j \in DOMAIN ep'[p].tasks :
                    /\ ep'[p].tasks[j].kind = "createOfferTo"
                    /\ ep'[p].tasks[j].at = "delay50"
       /\ (Trackless(ep[p]) /\ \E i \in TaskIds :
              OfferSetLocal(p, i) /\ ep[p].tasks[i].userId = q
                /\ SetLocalOfferOk(ep[p].conn[ep[p].tasks[i].pc]))
            => Sent(p, q, "offer")
       /\ (Trackless(ep[p]) /\ Signal(p) /\ Head(inbox[p]).type = "offer"
              /\ Head(inbox[p]).from = q /\ ep[p].peerConnections[q] = NoPc)
            => \E j \in DOMAIN ep'[p].tasks :
                 ep'[p].tasks[j].at = "setRemoteOffer"
       /\ (Trackless(ep[p]) /\ \E i \in TaskIds :
              AnswerSetLocal(p, i) /\ ep[p].tasks[i].userId = q
                /\ SetLocalAnswerOk(ep[p].conn[ep[p].tasks[i].pc]))
            => Sent(p, q, "answer")
       /\ Trackless(ep'[p])
            => /\ \A c \in DOMAIN ep'[p].conn : ep'[p].conn[c].senders = NoSenders
               /\ ~ep'[p].controlsStale
                    => ~ep'[p].controls.hasMic /\ ~ep'[p].controls.hasCamera]_vars

C15_TracklessOfferAnswered ==
  \E p \in Peers :
    /\ Trackless(ep[p]) /\ ~ep[p].controlsStale
    /\ \E c \in DOMAIN ep[p].conn :
         /\ ep[p].conn[c].currentLocal = "offer"
         /\ ep[p].conn[c].currentRemote = "answer"

\* createOfferTo or handleSignal of p resolves the session for q in this step.
ResolvesSession(p, q) ==
  \/ NewUserConnected(p, q) /\ StreamUsable(ep[p])
  \/ /\ Signal(p)
     /\ Head(inbox[p]).from = q
     /\ ~(~ep[p].isStreamReady /\ Head(inbox[p]).type = "offer")

Attaches(p, c, t) ==
  /\ c \in DOMAIN ep'[p].conn
  /\ ep'[p].conn[c].senders[t] > 0
  /\ c \in DOMAIN ep[p].conn => ep[p].conn[c].senders[t] = 0

\* C17: a step attaches a local track to a connection only while the local
\* media is ready, and the track is one of the stored stream; no connection
\* is created while the media is not ready, so none waits for its tracks.
C17_TracksAttachedOnlyWhenReady ==
  [][\A p \in Peers :
       /\ \A c \in ConnIds, t \in Tracks :
            Attaches(p, c, t) =>
              /\ ep[p].isStreamReady /\ ep'[p].isStreamReady
              /\ ep[p].localStream # <<>> /\ t \in ep[p].localStream[1]
       /\ Len(ep'[p].conn) > Len(ep[p].conn) => ep[p].isStreamReady]_vars

C17_RecreatedWithTracks ==
  \E p \in Peers, q \in Peers :
    /\ ep[p].exits = 0 /\ ep[p].limit.exits > 0
    /\ ep[p].peerConnections[q] = 2
    /\ \A t \in Tracks : ep[p].conn[2].senders[t] = 1

\* C18: every connection has at most one sender for each local track,
\* whatever sequence of session creation, createOfferTo, offer handling and
\* recovery touched it.
C18_TrackAttachedOnce ==
  \A p \in Peers : \A c \in DOMAIN ep[p].conn : \A t \in Tracks :
    ep[p].conn[c].senders[t] <= 1

C18_AttachedOnceAfterRecovery ==
  \E p \in Peers :
    /\ Len(ep[p].conn) >= 2
    /\ ep[p].conn[1].recreations = 1
    /\ ep[p].conn[2].pendingLocal = "offer"
    /\ \A t \in Tracks : ep[p].conn[1].senders[t] = 1 /\ ep[p].conn[2].senders[t] = 1

\* The signal m that p is about to handle is one that must change nothing:
\* an answer while no offer of p is outstanding (a duplicate answer is one),
\* or a candidate of a peer whose session is closed or no longer registered.
MustBeNoOp(p, m) ==
  LET pc == ep[p].peerConnections[m.from]
  IN \/ /\ m.type = "answer"
        /\ pc = NoPc \/ ep[p].conn[pc].signalingState # "have-local-offer"
     \/ /\ m.type = "candidate"
        /\ pc = NoPc \/ ep[p].conn[pc].signalingState = "closed"

\* C19: handling a duplicate answer, an answer while no offer is outstanding,
\* or a candidate of a peer whose session is closed or removed leaves the
\* registry, every connection and the candidate queues as they were, and
\* emits nothing.
C19_LateSignalsAreNoOps ==
  [][\A p \in Peers :
       (Signal(p) /\ MustBeNoOp(p, Head(inbox[p])))
       => /\ ep'[p].peerConnections = ep[p].peerConnections
          /\ ep'[p].conn = ep[p].conn
          /\ ep'[p].pendingIceCandidates = ep[p].pendingIceCandidates
          /\ inbox' = [inbox EXCEPT ![p] = Tail(@)]]_vars

\* C20: a step in which the transport rejects a candidate (one it cannot
\* parse, or any candidate while the connection is closed or has no remote
\* description) changes no connection and no registry entry; the loop over
\* the queued candidates tries the next candidate after every candidate,
\* rejected or not, applies each one the transport accepts, and leaves the
\* queue empty when it ends.
C20_RejectedCandidateSwallowed ==
  [][\A p \in Peers : \A i \in TaskIds :
       /\ PendingIceStep(p, i) =>
            LET t == ep[p].tasks[i]
                list == LoopArray(ep[p], t)
                r == ep[p].conn[t.ppc]
            IN /\ ~Accepted(ep[p], r, list[t.idx]) =>
                    /\ ep'[p].conn = ep[p].conn
                    /\ ep'[p].peerConnections = ep[p].peerConnections
               /\ Accepted(ep[p], r, list[t.idx]) =>
                    ep'[p].conn[t.ppc].applied = Append(r.applied, list[t.idx])
               /\ t.idx < Len(list) =>
                    \E j \in DOMAIN ep'[p].tasks :
                      ep'[p].tasks[j] = [t EXCEPT !.idx = t.idx + 1]
               /\ t.idx = Len(list) =>
                    ep'[p].pendingIceCandidates[t.userId] = <<>>
       /\ (/\ IceCandidateAdded(p, i)
           /\ ~Accepted(ep[p], ep[p].conn[ep[p].tasks[i].pc], ep[p].tasks[i].cand))
          => /\ ep'[p].conn = ep[p].conn
             /\ ep'[p].peerConnections = ep[p].peerConnections
             /\ ep'[p].pendingIceCandidates = ep[p].pendingIceCandidates]_vars

C20_AppliedAfterRejected ==
  \E p \in Peers, q \in Peers :
    /\ ep[p].everQueued[q] = {1, 2} /\ 1 \in ep[p].malformed
    /\ ep[p].peerConnections[q] # NoPc
    /\ Registered(p, q).applied = <<2>>
    /\ Registered(p, q).signalingState = "stable"
    /\ ep[p].pendingIceCandidates[q] = <<>>

\* C21: the newUserConnected handler calls createOfferTo only while the local
\* media is ready (so the wait of 200 ms never starts); when the session of
\* the peer is in have-local-offer or have-remote-offer the call changes no
\* flag, connection or suspended function and emits nothing; it goes on to
\* make an offer only for a session that is stable or new; and an offer is
\* emitted only while the media is ready.
C21_OfferOnlyWhenStable ==
  [][\A p \in Peers : \A q \in Peers \ {p} :
       /\ NewUserConnected(p, q) =>
            LET pc == ep[p].peerConnections[q]
            IN /\ StreamUsable(ep[p])
               /\ (/\ pc # NoPc
                   /\ ep[p].conn[pc].signalingState
                        \in {"have-local-offer", "have-remote-offer"})
                  => /\ ep'[p].makingOffer = ep[p].makingOffer
                     /\ ep'[p].conn = ep[p].conn
                     /\ ep'[p].peerConnections = ep[p].peerConnections
                     /\ ep'[p].tasks = ep[p].tasks
                     /\ inbox' = inbox
               /\ ep'[p].tasks # ep[p].tasks
                  => /\ pc = NoPc \/ ep[p].conn[pc].signalingState = "stable"
                     /\ ep'[p].makingOffer[q]
       /\ (\E i \in TaskIds : OfferSetLocal(p, i) /\ inbox' # inbox)
            => ep[p].isStreamReady]_vars

C21_OfferSkipped ==
  \E p \in Peers, q \in Peers :
    /\ "skippedOffer" \in ep[p].seen
    /\ ep[p].peerConnections[q] # NoPc
    /\ Registered(p, q).signalingState = "have-local-offer"
    /\ ~ep[p].makingOffer[q]

\* An outbound offer of p to q is mid-flight: a function of p that will send
\* an offer to q is between the start of offer creation and the emit.
OfferMidFlight(p, q) ==
  \E i \in DOMAIN ep[p].tasks :
    /\ ep[p].tasks[i].userId = q
    /\ ep[p].tasks[i].at \in {"delay50", "createOffer", "setLocalOffer",
                              "rCreateOffer", "rSetLocalOffer"}

\* C22: makingOffer[q] is true in exactly the states in which an outbound
\* offer to q is mid-flight, whether createOfferTo or the recovery timer
\* makes the offer.
C22_MakingOfferWhileMidFlight ==
  \A p \in Peers : \A q \in Peers \ {p} :
    ep[p].makingOffer[q] <=> OfferMidFlight(p, q)

\* A connection that p created for q emits a candidate addressed to q in
\* this step.
CandidateEmittedTo(p, q) ==
  \E c \in DOMAIN ep[p].conn :
    /\ ep[p].conn[c].userId = q
    /\ IceCandidate(p, c)
    /\ Emit(ep[p], p, q, "candidate", ep[p].cands + 1) # <<>>

\* C23: the userDisconnected handler for q closes the connection of q and
\* removes q from the registry, the remote streams and the remote users; in
\* no later step does a connection created for q store a stream for q or
\* emit a candidate addressed to q.
C23_DepartedPeerStaysGone ==
  [][\A p \in Peers : \A q \in Peers \ {p} :
       /\ UserDisconnected(p, q) =>
            /\ ep'[p].peerConnections[q] = NoPc
            /\ q \notin ep'[p].remoteStreams /\ q \notin ep'[p].remoteUsers
            /\ ep[p].peerConnections[q] # NoPc =>
                 ep'[p].conn[ep[p].peerConnections[q]].signalingState = "closed"
       /\ q \in ep[p].departed =>
            /\ q \in ep'[p].remoteStreams => q \in ep[p].remoteStreams
            /\ ~CandidateEmittedTo(p, q)]_vars

\* What p holds for peer q: the registered connection with its signaling
\* state and descriptions, the makingOffer flag and the pending ICE queue.
Session(e, q) ==
  LET pc == e.peerConnections[q]
  IN [pc |-> pc,
      negotiation |->
        IF pc = NoPc THEN <<>>
        ELSE <<e.conn[pc].signalingState, e.conn[pc].connectionState,
               e.conn[pc].pendingLocal, e.conn[pc].currentLocal,
               e.conn[pc].pendingRemote, e.conn[pc].currentRemote>>,
      makingOffer |-> e.makingOffer[q],
      pendingIceCandidates |-> e.pendingIceCandidates[q]]

\* This step of p is a negotiation, departure or recovery step for peer q.
StepFor(p, q) ==
  \/ NewUserConnected(p, q)
  \/ Signal(p) /\ Head(inbox[p]).from = q
  \/ UserDisconnected(p, q)
  \/ \E c \in DOMAIN ep[p].conn :
       /\ ep[p].conn[c].userId = q
       /\ \E s \in {"connecting", "connected", "disconnected", "failed"} :
            ConnectionStateChange(p, c, s)
  \/ \E i \in DOMAIN ep[p].tasks :
       /\ ep[p].tasks[i].userId = q
       /\ \/ OfferDelayDone(p, i) \/ OfferCreated(p, i) \/ OfferSetLocal(p, i)
          \/ RollbackDone(p, i) \/ RemoteOfferSet(p, i) \/ RemoteAnswerSet(p, i)
          \/ PendingIceStep(p, i) \/ AnswerCreated(p, i) \/ AnswerSetLocal(p, i)
          \/ IceCandidateAdded(p, i) \/ RecoveryTimer(p, i)
          \/ RecoveryOfferCreated(p, i) \/ RecoveryOfferSetLocal(p, i)

\* C24: a negotiation, departure or recovery step of p for peer q leaves
\* what p holds for every other peer as it was.
C24_OtherSessionsUntouched ==
  [][\A p \in Peers : \A q \in Peers \ {p} :
       StepFor(p, q) =>
         \A u \in Peers \ {p, q} : Session(ep'[p], u) = Session(ep[p], u)]_vars

C24_OneLeftOneRecovered ==
  \E p \in Peers, q \in Peers, u \in Peers :
    /\ q \in ep[p].departed
    /\ \E c \in DOMAIN ep[p].conn :
         /\ ep[p].conn[c].userId = q
         /\ ep[p].conn[c].currentRemote = "answer"
         /\ ep[p].conn[c].signalingState = "closed"
    /\ ep[p].peerConnections[u] # NoPc
    /\ Registered(p, u).connectionState = "new"
    /\ Registered(p, u).pendingLocal = "offer"
    /\ \E c \in DOMAIN ep[p].conn :
         ep[p].conn[c].userId = u /\ ep[p].conn[c].recreations = 1

\* The hook of p has rendered with its current state.
Settled(p) ==
  ~ep[p].controlsStale /\ ep[p].rendered = RenderOf(ep[p].controls)

\* C25: once the hook has rendered with its current state, on a stream with
\* an audio and a video track isMuted is true exactly if the audio track is
\* disabled and isCameraOff exactly if the video track is disabled,
\* whatever toggles were called before, two of them between two renders
\* included.
C25_ControlsAgreeWithTracks ==
  \A p \in Peers :
    (Settled(p) /\ ep[p].localStreamState = <<Tracks>>)
    => /\ ep[p].controls.isMuted <=> ~ep[p].enabled["audio"]
       /\ ep[p].controls.isCameraOff <=> ~ep[p].enabled["video"]

\* C26: the handler of an ICE connection-state change keeps the registry,
\* creates no connection, starts no function and emits nothing; on failed it
\* only marks that connection for an ICE restart.  The registry entry of a
\* peer goes from one connection to another only when the recovery timer
\* fires for a registered connection whose connectionState is failed.
C26_IceFailureOnlyRestartsIce ==
  [][\A p \in Peers :
       /\ \A c \in ConnIds, s \in {"checking", "connected", "disconnected", "failed"} :
            IceConnectionStateChange(p, c, s) =>
              /\ ep'[p].peerConnections = ep[p].peerConnections
              /\ ep'[p].tasks = ep[p].tasks
              /\ inbox' = inbox
              /\ ep'[p].conn =
                   [ep[p].conn EXCEPT
                      ![c].iceConnectionState = s,
                      ![c].iceRestart = (@ \/ s = "failed")]
       /\ \A q \in Peers :
            (/\ ep[p].peerConnections[q] # NoPc
             /\ ep'[p].peerConnections[q] # NoPc
             /\ ep'[p].peerConnections[q] # ep[p].peerConnections[q])
            => /\ \E i \in TaskIds : RecoveryTimer(p, i)
               /\ Registered(p, q).connectionState = "failed"]_vars

C26_IceRestartRequested ==
  \E p \in Peers, q \in Peers :
    /\ ep[p].peerConnections[q] # NoPc
    /\ Registered(p, q).iceConnectionState = "failed"
    /\ Registered(p, q).iceRestart
    /\ Registered(p, q).connectionState = "connecting"
    /\ Len(ep[p].conn) = 1

\* Instance p replaced a failed session of its registry by a new one.
Recreated(p) == \E c \in DOMAIN ep[p].conn : ep[p].conn[c].recreations > 0

\* C27: when the recovery timers of both sides found their session failed and
\* replaced it, and every signal is handled and every call settled, the
\* registered session of each side for the other is in signalingState stable.
C27_MutualRecoveryEndsStable ==
  (Quiescent /\ Recreated(1) /\ Recreated(2)) =>
    \A p \in {1, 2} :
      /\ ep[p].peerConnections[3 - p] # NoPc
      /\ Registered(p, 3 - p).signalingState = "stable"

\* Task i of p is a pending recovery timer whose session was closed since it
\* failed: the peer's departure was reported, or the meeting was exited.
TimerOfClosedSession(p, i) ==
  /\ At(p, i, "timer")
  /\ ep[p].conn[ep[p].tasks[i].pc].signalingState = "closed"

\* C28: when the recovery timer of a session fires after the session was
\* closed by the peer's departure or by the exit of the meeting, the timer
\* only ends: the registry and the connections stay as they are, no function
\* is started and nothing is emitted.
C28_TimerAfterDepartureIsNoOp ==
  [][\A p \in Peers, i \in TaskIds :
       (TimerOfClosedSession(p, i) /\ RecoveryTimer(p, i)) =>
          /\ ep'[p].peerConnections = ep[p].peerConnections
          /\ ep'[p].conn = ep[p].conn
          /\ ep'[p].tasks = RemoveAt(ep[p].tasks, i)
          /\ inbox' = inbox]_vars

\* A handler of the socket of p runs.
HandlerRuns(p) ==
  \/ UsersInRoom(p)
  \/ Signal(p)
  \/ \E q \in Peers : NewUserConnected(p, q)
  \/ \E q \in Peers : UserDisconnected(p, q)

\* C29: an instance has a socket only while isStreamReady is true, every
\* usersInRoom, newUserConnected, signal and userDisconnected handler runs
\* with isStreamReady true, and pendingSignals is empty in every state.
C29_SocketOnlyWhileReady ==
  /\ [](\A p \in Peers :
         /\ ep[p].signalingSocket # "null" => ep[p].isStreamReady
         /\ ep[p].pendingSignals = <<>>)
  /\ [][\A p \in Peers : HandlerRuns(p) => ep[p].isStreamReady]_vars

C29_SignalAfterRemount ==
  \E p \in Peers, q \in Peers :
    /\ ep[p].exits > 0 /\ ~ep[p].cancelled
    /\ ep[p].isStreamReady /\ ep[p].listed
    /\ ep[p].peerConnections[q] # NoPc
    /\ Registered(p, q).signalingState = "have-remote-offer"
    /\ p \in ep[q].departed

\* The sessions of p and q for each other are stable with a remote
\* description set.
Negotiated(p, q) ==
  /\ ep[p].peerConnections[q] # NoPc /\ ep[q].peerConnections[p] # NoPc
  /\ Registered(p, q).signalingState = "stable"
  /\ Registered(q, p).signalingState = "stable"
  /\ RemoteDescription(Registered(p, q)) # "none"
  /\ RemoteDescription(Registered(q, p)) # "none"

\* C30: the usersInRoom handler leaves a session in the registry for every
\* listed user, starts no createOfferTo and emits nothing; the newcomer
\* never emits an offer, every offer comes from a peer that was told of the
\* newcomer; and with the event loops running, the newcomer and each peer of
\* the room are eventually, and from then on, stable with a remote
\* description set.
C30_OneSideStartsTheJoin ==
  /\ [][/\ UsersInRoom(Newcomer) =>
            /\ inbox' = inbox
            /\ ep'[Newcomer].tasks = ep[Newcomer].tasks
            /\ ep'[Newcomer].makingOffer = ep[Newcomer].makingOffer
            /\ \A q \in Peers \ {Newcomer} :
                 ep[q].signalingSocket = "connected" =>
                   ep'[Newcomer].peerConnections[q] # NoPc
        /\ \A p \in Peers :
             Len(inbox'[p]) > Len(inbox[p]) =>
               LET m == inbox'[p][Len(inbox'[p])]
               IN m.type = "offer" =>
                    /\ m.from # Newcomer /\ p = Newcomer
                    /\ ep[m.from].joins > 0]_vars
  /\ <>[](\A q \in Peers \ {Newcomer} : Negotiated(Newcomer, q))

C30_JoinedAfterUsersInRoom ==
  /\ ep[Newcomer].listed
  /\ \A q \in Peers \ {Newcomer} :
       /\ Negotiated(Newcomer, q)
       /\ Registered(Newcomer, q).currentRemote = "offer"
       /\ Registered(q, Newcomer).currentRemote = "answer"
  /\ \E q \in Peers \ {Newcomer} : ep[Newcomer].politeEval[q] = "polite"

====
